---- MODULE Spec2Model ----
(***************************************************************************)
(* A model of metaflow/flowspec.py: the step-transition validator          *)
(* (FlowSpec.next), the join-time artifact merge (FlowSpec.merge_artifacts)*)
(* and the config-mutation pipeline (FlowSpec._process_config_decorators). *)
(*                                                                         *)
(* One task process is one FlowSpec instance: current_step is the step it  *)
(* runs, attrs is the instance dictionary, datastore the task's own        *)
(* artifact store, inputs the inbound branches of a join.  Python values   *)
(* are records with a "tag" field.  Every operation is synchronous, so one *)
(* action is one whole call; an exception leaves the assignments made      *)
(* before it in place, and the outcome of the call is kept in result.      *)
(***************************************************************************)
EXTENDS Integers, Sequences, FiniteSets, TLC

VARIABLES
    current_step,           \* self._current_step
    include_foreach_stack,  \* metaflow_config.INCLUDE_FOREACH_STACK of this process
    attrs,                  \* the instance dictionary: attribute name -> value
    transition,             \* self._transition
    datastore,              \* self._datastore: artifact name -> fingerprint
    inputs,                 \* the inbound branches handed to a join step
    merge_args,             \* exclude and include of the merge_artifacts call made
    _foreach_stack,         \* self._foreach_stack: the frames, outermost first
    _cached_input,          \* self._cached_input: stack index -> resolved value
    flow,                   \* per flow class: latch, _flow_state, graph, attributes
    config_decorators,      \* step.config_decorators of the decorated steps
    declared,               \* the Parameter attributes the flow declares
    result                  \* outcome of the last call (return or exception)

foreachVars == <<_foreach_stack, _cached_input>>
taskVars == <<current_step, include_foreach_stack, attrs, transition, datastore,
              inputs, merge_args, foreachVars>>
classVars == <<flow, config_decorators, declared>>
vars == <<taskVars, classVars, result>>

(***************************************************************************)
(* Bounds of the model.                                                    *)
(***************************************************************************)
MaxSplits == 2          \* longest foreach list a step body assigns
MaxParallel == 2        \* largest num_parallel passed to next()

(***************************************************************************)
(* Program constants.                                                      *)
(***************************************************************************)
MAXIMUM_FOREACH_VALUE_CHARS == 30

INTERNAL_ARTIFACTS_SET ==
    {"_foreach_values", "_unbounded_foreach", "_control_mapper_tasks",
     "_control_task_is_mapper_zero", "_parallel_ubf_iter"}

(***************************************************************************)
(* Python values.                                                          *)
(***************************************************************************)
NoAttr == [tag |-> "noattr"]            \* the name is not in the dictionary
PyNone == [tag |-> "None"]
PyTrue == [tag |-> "bool", b |-> TRUE]
PyInt(n) == [tag |-> "int", n |-> n]
PyStr(s) == [tag |-> "str", s |-> s]
PyList(items) == [tag |-> "list", items |-> items]
Ubf == [tag |-> "UnboundedForeachInput"]  \* some other UnboundedForeachInput

\* ParallelUBF.__init__
ParallelUBF(num_parallel) == [tag |-> "ParallelUBF", num_parallel |-> num_parallel]

\* ParallelUBF.__getitem__: `item or 0`; rank None is [tag |-> "None"].
ParallelUBF_getitem_no_default(item) == item
ParallelUBF_getitem(item) ==
    IF item = PyNone \/ item = PyInt(0) THEN PyInt(0) ELSE item

\* Python truthiness of the values used as the foreach argument.
Truthy(v) ==
    CASE v.tag = "None" -> FALSE
      [] v.tag = "str"  -> v.s # ""
      [] v.tag = "int"  -> v.n # 0
      [] v.tag = "list" -> Len(v.items) > 0
      [] OTHER          -> TRUE

IsUnboundedForeachInput(v) == v.tag \in {"UnboundedForeachInput", "ParallelUBF"}

SeqsUpTo(S, n) == UNION {[1..k -> S] : k \in 0..n}

Min(a, b) == IF a < b THEN a ELSE b

(***************************************************************************)
(* The graph (external collaborator, read only): the flow of the           *)
(* merge_artifacts docstring, start splitting into a and b, joined in j.   *)
(***************************************************************************)
Steps == {"start", "a", "b", "j", "end"}

graph ==
    [start |-> [type |-> "split-static", out_funcs |-> <<"a", "b">>],
     a     |-> [type |-> "linear",       out_funcs |-> <<"j">>],
     b     |-> [type |-> "linear",       out_funcs |-> <<"j">>],
     j     |-> [type |-> "join",         out_funcs |-> <<"end">>],
     end   |-> [type |-> "end",          out_funcs |-> <<>>]]

(***************************************************************************)
(* Attribute access.                                                       *)
(***************************************************************************)
\* The methods of the flow class: its steps and a method that is no step
ClassMethods == Steps \cup {"helper"}

UserAttrs == {"x", "y"}
NextAttrs == {"_parallel_ubf_iter", "_foreach_values", "_unbounded_foreach",
              "_foreach_num_splits", "_foreach_var"}
AttrNames == UserAttrs \cup NextAttrs
ArtifactNames == UserAttrs \cup {"_foreach_values"}

Absent == "absent"      \* the store holds no artifact of that name
Shas == {"sha1", "sha2"}
Loaded(sha) == [tag |-> "artifact", sha |-> sha]

InDict(at, name) == name \in DOMAIN at /\ at[name] # NoAttr
InStore(ds, name) == name \in DOMAIN ds /\ ds[name] # Absent

\* FlowSpec.__getattr__ runs when the instance dictionary and the class do not
\* have the name: an artifact of the task's datastore is loaded and cached.
GetattrHookHits(at, ds, name) ==
    ~InDict(at, name) /\ name \notin ClassMethods /\ InStore(ds, name)

\* hasattr(self, name)
HasAttr(at, ds, name) ==
    InDict(at, name) \/ name \in ClassMethods \/ InStore(ds, name)

\* The instance dictionary after hasattr/getattr(self, name).
AfterGetattr(at, ds, name) ==
    IF GetattrHookHits(at, ds, name)
    THEN [at EXCEPT ![name] = Loaded(ds[name])]
    ELSE at

\* getattr(self, name), for a name hasattr finds and that is no method.
GetAttr(at, ds, name) ==
    IF InDict(at, name) THEN at[name] ELSE Loaded(ds[name])

(***************************************************************************)
(* FlowSpec.next                                                           *)
(***************************************************************************)
NoStep == "-"           \* the message does not interpolate the step's name
NoTransition == [tag |-> "None"]
Transition(funcs, foreach) == [tag |-> "tuple", funcs |-> funcs, foreach |-> foreach]

Outcome(at, tr, res) == [attrs |-> at, transition |-> tr, result |-> res]
NextOk == [op |-> "next", kind |-> "ok", step |-> NoStep, info |-> <<>>]
\* InvalidNextException(msg): kind names the message, step and info what the
\* message interpolates.
InvalidNext(kind, step, info) ==
    [op |-> "next", kind |-> kind, step |-> step, info |-> info]

\* A positional argument: a bound method (dst.__func__.__name__ is name) or
\* something that is no function.
Method(name) == [kind |-> "method", name |-> name]
NonFunc == [kind |-> "nonfunc", name |-> "-"]

\* FlowSpec._get_foreach_item_value for a str item (a sequence of characters):
\* basestring(value)[:MAXIMUM_FOREACH_VALUE_CHARS]
_get_foreach_item_value(item) ==
    SubSeq(item, 1, Min(Len(item), MAXIMUM_FOREACH_VALUE_CHARS))

_validate_ubf_step_any_type(step_name) ==
    IF step_name \notin DOMAIN graph
    THEN [op |-> "next", kind |-> "KeyError", step |-> "-", info |-> <<step_name>>]
    ELSE IF Len(graph[step_name].out_funcs) # 1
    THEN [op |-> "next", kind |-> "ubf_single_node", step |-> "-",
          info |-> graph[step_name].out_funcs]
    ELSE [op |-> "next", kind |-> "ok", step |-> "-", info |-> <<>>]

\* FlowSpec._validate_ubf_step: "ok", or the InvalidNextException it raises;
\* self._graph[step_name] raises KeyError for a name that is no step.
_validate_ubf_step(step_name) ==
    LET join_list == graph[step_name].out_funcs IN
    IF step_name \notin DOMAIN graph
    THEN [op |-> "next", kind |-> "KeyError", step |-> NoStep, info |-> <<step_name>>]
    ELSE IF Len(join_list) # 1
    THEN InvalidNext("ubf_single_node", NoStep, join_list)
    ELSE LET join_step == join_list[1]
             join_type == graph[join_step].type IN
         IF join_type # "join"
         THEN InvalidNext("ubf_join_type", NoStep, <<step_name, join_step>>)
         ELSE NextOk

\* `for item in foreach_iter` succeeds on a list.
IsIterable(v) == v.tag = "list"

next_record_unchecked(cur, at, tr, dsts, funcs, foreach) ==
    Outcome(at, Transition(funcs, foreach), NextOk)

next_record_despite_error(cur, at, tr, dsts, funcs, foreach) ==
    IF foreach = PyNone /\ Len(dsts) < 1
    THEN Outcome(at, Transition(funcs, foreach), InvalidNext("no_destination", cur, <<>>))
    ELSE Outcome(at, Transition(funcs, foreach), NextOk)

\* lines 935-945: a transition without foreach needs a destination; record it.
next_record(cur, at, tr, dsts, funcs, foreach) ==
    IF foreach = PyNone /\ Len(dsts) < 1
    THEN Outcome(at, tr, InvalidNext("no_destination", cur, <<>>))
    ELSE Outcome(at, Transition(funcs, foreach), NextOk)

next_bounded_zero_allowed(cur, ifs, at, tr, dsts, funcs, foreach, foreach_iter) ==
    IF ~IsIterable(foreach_iter)
    THEN Outcome(at, tr, InvalidNext("not_iterable", cur, <<foreach.s>>))
    ELSE next_record(cur,
             [at EXCEPT !["_foreach_num_splits"] = PyInt(Len(foreach_iter.items)),
                        !["_foreach_var"] = foreach],
             tr, dsts, funcs, foreach)

\* lines 905-931: a bounded foreach is consumed once and counted.
next_bounded(cur, ifs, at, tr, dsts, funcs, foreach, foreach_iter) ==
    IF ~IsIterable(foreach_iter)
    THEN Outcome(IF ifs THEN [at EXCEPT !["_foreach_values"] = PyList(<<>>)] ELSE at,
                 tr, InvalidNext("not_iterable", cur, <<foreach.s>>))
    ELSE
    LET items == foreach_iter.items
        values == [i \in 1..Len(items) |-> _get_foreach_item_value(items[i])]
        num_splits == IF ifs THEN Len(values) ELSE Len(items)
        at1 == IF ifs
               THEN [at EXCEPT !["_foreach_values"] = PyList(values),
                               !["_foreach_num_splits"] = PyInt(num_splits)]
               ELSE [at EXCEPT !["_foreach_num_splits"] = PyInt(num_splits)]
    IN  IF num_splits = 0
        THEN Outcome(at1, tr, InvalidNext("zero_splits", cur, <<foreach.s>>))
        ELSE next_record(cur, [at1 EXCEPT !["_foreach_var"] = foreach],
                         tr, dsts, funcs, foreach)

\* lines 901-904: an unbounded foreach defers the split count and checks the
\* topology below the destination.
next_unbounded(cur, at, tr, dsts, funcs, foreach) ==
    LET at1 == [at EXCEPT !["_unbounded_foreach"] = PyTrue,
                          !["_foreach_num_splits"] = PyNone]
        v == _validate_ubf_step(funcs[1])
    IN  IF v.kind # "ok"
        THEN Outcome(at1, tr, v)
        ELSE next_record(cur, [at1 EXCEPT !["_foreach_var"] = foreach],
                         tr, dsts, funcs, foreach)

\* lines 874-933: check: foreach is valid
next_foreach(cur, ifs, at, ds, tr, dsts, funcs, foreach) ==
    IF ~Truthy(foreach)
    THEN next_record(cur, at, tr, dsts, funcs, foreach)
    ELSE IF foreach.tag # "str"
    THEN Outcome(at, tr, InvalidNext("foreach_not_string", cur, <<>>))
    ELSE IF Len(dsts) # 1
    THEN Outcome(at, tr, InvalidNext("foreach_one_target", cur, <<>>))
    ELSE IF ~HasAttr(at, ds, foreach.s)
    THEN Outcome(at, tr, InvalidNext("foreach_missing", cur, <<foreach.s>>))
    ELSE
    LET at0 == AfterGetattr(at, ds, foreach.s)
        foreach_iter == IF foreach.s \in ClassMethods
                        THEN [tag |-> "method", name |-> foreach.s]
                        ELSE GetAttr(at0, ds, foreach.s)
        at1 == [at0 EXCEPT !["_foreach_values"] = PyNone]
    IN  IF IsUnboundedForeachInput(foreach_iter)
        THEN next_unbounded(cur, at1, tr, dsts, funcs, foreach)
        ELSE next_bounded(cur, ifs, at1, tr, dsts, funcs, foreach, foreach_iter)

next_parallel_keeping_foreach(cur, ifs, at, ds, tr, dsts, funcs, foreach, num_parallel) ==
    IF num_parallel # PyNone /\ num_parallel.n >= 1
    THEN IF Len(dsts) > 1
         THEN Outcome(at, tr, InvalidNext("parallel_one_destination", NoStep, <<>>))
         ELSE next_foreach(cur, ifs,
                  [at EXCEPT !["_parallel_ubf_iter"] = ParallelUBF(num_parallel.n)],
                  ds, tr, dsts, funcs,
                  IF foreach # PyNone THEN foreach ELSE PyStr("_parallel_ubf_iter"))
    ELSE next_foreach(cur, ifs, at, ds, tr, dsts, funcs, foreach)

next_parallel_any_width(cur, ifs, at, ds, tr, dsts, funcs, foreach, num_parallel) ==
    IF num_parallel # PyNone
    THEN IF Len(dsts) > 1
         THEN Outcome(at, tr, InvalidNext("parallel_one_destination", NoStep, <<>>))
         ELSE next_foreach(cur, ifs,
                  [at EXCEPT !["_parallel_ubf_iter"] = ParallelUBF(num_parallel.n)],
                  ds, tr, dsts, funcs, PyStr("_parallel_ubf_iter"))
    ELSE next_foreach(cur, ifs, at, ds, tr, dsts, funcs, foreach)

\* lines 866-872: num_parallel rewrites the call into a foreach over a ParallelUBF.
next_parallel(cur, ifs, at, ds, tr, dsts, funcs, foreach, num_parallel) ==
    IF num_parallel # PyNone /\ num_parallel.n >= 1
    THEN IF Len(dsts) > 1
         THEN Outcome(at, tr, InvalidNext("parallel_one_destination", NoStep, <<>>))
         ELSE next_foreach(cur, ifs,
                  [at EXCEPT !["_parallel_ubf_iter"] = ParallelUBF(num_parallel.n)],
                  ds, tr, dsts, funcs, PyStr("_parallel_ubf_iter"))
    ELSE next_foreach(cur, ifs, at, ds, tr, dsts, funcs, foreach)

\* lines 846-864: the first positional argument that is no method of this
\* object, or 0.
BadDst(at, ds, dsts) ==
    LET bad == {i \in 1..Len(dsts) :
                   dsts[i].kind # "method" \/ ~HasAttr(at, ds, dsts[i].name)}
    IN  IF bad = {} THEN 0 ELSE CHOOSE i \in bad : \A k \in bad : i <= k

next_dsts(cur, ifs, at, ds, tr, dsts, foreach, num_parallel) ==
    LET i == BadDst(at, ds, dsts)
        funcs == [k \in 1..Len(dsts) |-> dsts[k].name]
    IN  IF i # 0 /\ dsts[i].kind # "method"
        THEN Outcome(at, tr, InvalidNext("not_a_function", cur, <<ToString(i)>>))
        ELSE IF i # 0
        THEN Outcome(at, tr, InvalidNext("unknown_step", cur, <<dsts[i].name>>))
        ELSE next_parallel(cur, ifs, at, ds, tr, dsts, funcs, foreach, num_parallel)

next_once_unchecked(cur, ifs, at, ds, tr, dsts, foreach, num_parallel) ==
    next_dsts(cur, ifs, at, ds, tr, dsts, foreach, num_parallel)

\* lines 838-844: check: next() is called only once
next_once(cur, ifs, at, ds, tr, dsts, foreach, num_parallel) ==
    IF tr # NoTransition
    THEN Outcome(at, tr, InvalidNext("multiple_transitions", cur, <<>>))
    ELSE next_dsts(cur, ifs, at, ds, tr, dsts, foreach, num_parallel)

\* FlowSpec.next(*dsts, foreach=..., num_parallel=..., **kwargs); kwargs is the
\* sequence of the other keyword names.
next(cur, ifs, at, ds, tr, args) ==
    IF args.kwargs # <<>>
    THEN Outcome(at, tr, InvalidNext("unknown_keyword", cur, <<args.kwargs[1]>>))
    ELSE next_once(cur, ifs, at, ds, tr, args.dsts, args.foreach, args.num_parallel)

(***************************************************************************)
(* What a step body does: it assigns attributes and calls next().          *)
(***************************************************************************)
LongItem == [i \in 1..(MAXIMUM_FOREACH_VALUE_CHARS + 1) |-> "z"]
\* A list of n str items, short and long ones in turn.
ListOf(n) == PyList([i \in 1..n |-> IF i % 2 = 1 THEN <<"a">> ELSE LongItem])

\* Values a step body assigns to self.x: lists, a non-iterable, an unbounded input.
ForeachValues == {ListOf(n) : n \in 0..MaxSplits} \cup {PyInt(5), Ubf}

\* One destination is any of these; a static fan-out is a pair of FanOut.
DstArgs == {Method(n) : n \in {"a", "j", "start", "end", "ghost", "helper"}} \cup {NonFunc}
FanOut == {Method("a"), Method("ghost"), NonFunc}
DstLists ==
    {<<>>} \cup {<<d>> : d \in DstArgs}
           \cup {<<d, e>> : d \in FanOut, e \in FanOut}

NumParallelArgs == {PyNone} \cup {PyInt(n) : n \in (-1)..MaxParallel}

\* foreach: absent, two falsy values' representative "", a name, a non-string.
ForeachArgs == {PyNone, PyStr(""), PyStr("x"), PyInt(5)}

\* Calls with the two known keywords only, and calls that also pass another one.
PlainArgs ==
    [dsts : DstLists, foreach : ForeachArgs, num_parallel : NumParallelArgs,
     kwargs : {<<>>}]
KeywordArgs ==
    [dsts : {<<>>, <<Method("a")>>, <<Method("a"), NonFunc>>},
     foreach : {PyNone, PyStr("x")},
     num_parallel : {PyNone, PyInt(1)},
     kwargs : {<<"bogus">>}]
NextArgs == PlainArgs \cup KeywordArgs

NoResult == [op |-> "none", kind |-> "none", step |-> NoStep, info |-> <<>>]
EmptyDict == [n \in AttrNames |-> NoAttr]
EmptyStore == [n \in ArtifactNames |-> Absent]

\* FlowSpec.__init__, then the task runtime sets the step and the datastore.
InitNext ==
    /\ current_step = "start"
    /\ include_foreach_stack \in BOOLEAN
    /\ attrs = EmptyDict
    /\ transition = NoTransition
    /\ datastore = EmptyStore
    /\ inputs = <<>>
    /\ merge_args = <<>> /\ _foreach_stack = <<>> /\ _cached_input = <<>>
    /\ flow = <<>> /\ config_decorators = <<>> /\ declared = {}
    /\ result = NoResult

\* self.x = v in the step body, before it calls next()
SetForeachVar ==
    \E v \in ForeachValues :
        /\ transition = NoTransition /\ result = NoResult
        /\ attrs' = [attrs EXCEPT !["x"] = v]
        /\ UNCHANGED <<current_step, include_foreach_stack, transition,
                       datastore, inputs, merge_args, foreachVars, classVars, result>>

\* self.next(...) in the step body
CallNext ==
    \E args \in NextArgs :
        LET o == next(current_step, include_foreach_stack, attrs, datastore,
                      transition, args)
        IN  /\ attrs' = o.attrs
            /\ transition' = o.transition
            /\ result' = o.result
            /\ UNCHANGED <<current_step, include_foreach_stack, datastore, inputs,
                           merge_args, foreachVars, classVars>>

NextStepBody == SetForeachVar \/ CallNext

SpecNext == InitNext /\ [][NextStepBody]_vars

(***************************************************************************)
(* FlowSpec.merge_artifacts                                                *)
(***************************************************************************)
MaxStored == 4          \* most artifacts the inbound branches store together

\* The order in which a datastore's items() lists its artifacts.
NameOrder == <<"x", "y", "_foreach_values">>

InSeq(v, seq) == \E i \in 1..Len(seq) : seq[i] = v

MergeError(kind, step, info) ==
    [op |-> "merge", kind |-> kind, step |-> step, info |-> info]
MergeOk == [op |-> "merge", kind |-> "ok", step |-> NoStep, info |-> <<>>]
MergeOutcome(at, ds, res) == [attrs |-> at, datastore |-> ds, result |-> res]

is_candidate_ignoring_self(at, ds, exclude, include, var) ==
    IF include # <<>>
    THEN InSeq(var, include)
    ELSE ~InSeq(var, exclude) /\ var \notin INTERNAL_ARTIFACTS_SET

\* lines 694-707: the filter of available_vars
is_candidate(at, ds, exclude, include, var) ==
    IF include # <<>>
    THEN InSeq(var, include) /\ ~HasAttr(at, ds, var)
    ELSE /\ ~InSeq(var, exclude)
         /\ ~HasAttr(at, ds, var)
         /\ var \notin INTERNAL_ARTIFACTS_SET

\* lines 692-708: the (branch, var, sha) triples the two loops visit, in
\* order: the branches as given, each one's artifacts as items() lists them.
available_vars(at, ds, inps, exclude, include) ==
    LET n == Len(NameOrder)
        visited == [p \in 1..(Len(inps) * n) |->
                       [inp |-> ((p - 1) \div n) + 1,
                        var |-> NameOrder[((p - 1) % n) + 1],
                        sha |-> inps[((p - 1) \div n) + 1][NameOrder[((p - 1) % n) + 1]]]]
    IN  SelectSeq(visited, LAMBDA t :
            t.sha # Absent /\ is_candidate(at, ds, exclude, include, t.var))

NotMerged == [inp |-> 0, sha |-> Absent]

RECURSIVE merge_loop_keeping_last(_, _, _)
merge_loop_keeping_last(triples, to_merge, unresolved) ==
    IF triples = <<>>
    THEN [to_merge |-> to_merge, unresolved |-> unresolved]
    ELSE LET t == Head(triples)
             seen == to_merge[t.var] # NotMerged
             previous_sha == IF seen THEN to_merge[t.var].sha ELSE t.sha
         IN  merge_loop_keeping_last(Tail(triples),
                        [to_merge EXCEPT ![t.var] = [inp |-> t.inp, sha |-> t.sha]],
                        IF previous_sha # t.sha
                        THEN Append(unresolved, t.var) ELSE unresolved)

RECURSIVE merge_loop_first_conflict(_, _, _)
merge_loop_first_conflict(triples, to_merge, unresolved) ==
    IF triples = <<>>
    THEN [to_merge |-> to_merge, unresolved |-> unresolved]
    ELSE LET t == Head(triples)
             seen == to_merge[t.var] # NotMerged
             previous_sha == IF seen THEN to_merge[t.var].sha ELSE t.sha
             to_merge1 == IF seen THEN to_merge
                          ELSE [to_merge EXCEPT ![t.var] = [inp |-> t.inp, sha |-> t.sha]]
         IN  merge_loop_first_conflict(Tail(triples), to_merge1,
                        IF previous_sha # t.sha /\ unresolved = <<>>
                        THEN Append(unresolved, t.var) ELSE unresolved)

\* lines 708-712: to_merge.setdefault keeps the first branch and fingerprint of
\* a name; a later different fingerprint appends the name to unresolved.
RECURSIVE merge_loop(_, _, _)
merge_loop(triples, to_merge, unresolved) ==
    IF triples = <<>>
    THEN [to_merge |-> to_merge, unresolved |-> unresolved]
    ELSE LET t == Head(triples)
             seen == to_merge[t.var] # NotMerged
             previous_sha == IF seen THEN to_merge[t.var].sha ELSE t.sha
             to_merge1 == IF seen THEN to_merge
                          ELSE [to_merge EXCEPT ![t.var] = [inp |-> t.inp, sha |-> t.sha]]
         IN  merge_loop(Tail(triples), to_merge1,
                        IF previous_sha # t.sha
                        THEN Append(unresolved, t.var) ELSE unresolved)

missing_not_local(at, ds, include, to_merge) ==
    SelectSeq(include, LAMBDA v : to_merge[v] = NotMerged)

\* lines 714-717: the requested names that are neither merged nor on self
missing_of(at, ds, include, to_merge) ==
    SelectSeq(include, LAMBDA v : to_merge[v] = NotMerged /\ ~HasAttr(at, ds, v))

\* The names hasattr(self, .) is asked about (lines 698, 705, 716): each one
\* that only the task's datastore holds is loaded into the dictionary.
probed(inps, exclude, include, to_merge) ==
    {var \in DOMAIN to_merge :
        \/ /\ \E i \in 1..Len(inps) : InStore(inps[i], var)
           /\ IF include # <<>> THEN InSeq(var, include) ELSE ~InSeq(var, exclude)
        \/ InSeq(var, include) /\ to_merge[var] = NotMerged}

after_probes(at, ds, names) ==
    [n \in DOMAIN at |->
        IF n \in names /\ GetattrHookHits(at, ds, n) THEN Loaded(ds[n]) ELSE at[n]]

commit_partial(ds, inps, to_merge) ==
    LET merged == {var \in DOMAIN to_merge : to_merge[var] # NotMerged}
        one == IF merged = {} THEN {} ELSE {CHOOSE var \in merged : TRUE}
    IN  [var \in DOMAIN ds |->
            IF var \in one THEN inps[to_merge[var].inp][var] ELSE ds[var]]

\* lines 741-742: passdown_partial copies each merged artifact of its branch
commit(ds, inps, to_merge) ==
    [var \in DOMAIN ds |->
        IF to_merge[var] # NotMerged THEN inps[to_merge[var].inp][var] ELSE ds[var]]

\* lines 741-742: the passdown_partial calls, one for each key of to_merge in
\* the order the keys were inserted: the name and the branch it is copied from
passdowns(triples, to_merge) ==
    LET kept == SelectSeq(triples, LAMBDA t : to_merge[t.var].inp = t.inp)
    IN  [i \in 1..Len(kept) |-> [var |-> kept[i].var, inp |-> kept[i].inp]]

\* The call returned, having made these copies
MergedFrom(copies) ==
    [op |-> "merge", kind |-> "ok", step |-> NoStep, info |-> <<>>, copies |-> copies]

merge_resolve_missing_first(cur, at, ds, inps, exclude, include) ==
    LET loop == merge_loop(available_vars(at, ds, inps, exclude, include),
                           [var \in DOMAIN ds |-> NotMerged], <<>>)
        missing == missing_of(at, ds, include, loop.to_merge)
        at1 == after_probes(at, ds, probed(inps, exclude, include, loop.to_merge))
    IN  IF missing # <<>>
        THEN MergeOutcome(at1, ds, MergeError("missing", cur, missing))
        ELSE IF loop.unresolved # <<>>
        THEN MergeOutcome(at1, ds, MergeError("unhandled", cur, loop.unresolved))
        ELSE MergeOutcome(at1, commit(ds, inps, loop.to_merge),
                          MergedFrom(passdowns(
                              available_vars(at, ds, inps, exclude, include),
                              loop.to_merge)))

\* lines 690-742: collect, report conflicts, then missing names, else commit
merge_resolve(cur, at, ds, inps, exclude, include) ==
    LET loop == merge_loop(available_vars(at, ds, inps, exclude, include),
                           [var \in DOMAIN ds |-> NotMerged], <<>>)
        missing == missing_of(at, ds, include, loop.to_merge)
        at1 == after_probes(at, ds, probed(inps, exclude, include, loop.to_merge))
    IN  IF loop.unresolved # <<>>
        THEN MergeOutcome(at1, ds, MergeError("unhandled", cur, loop.unresolved))
        ELSE IF missing # <<>>
        THEN MergeOutcome(at1, ds, MergeError("missing", cur, missing))
        ELSE MergeOutcome(at1, commit(ds, inps, loop.to_merge),
                          MergedFrom(passdowns(
                              available_vars(at, ds, inps, exclude, include),
                              loop.to_merge)))

merge_artifacts_any_step(cur, at, ds, inps, exclude, include) ==
    IF Len(exclude) > 0 /\ Len(include) > 0
    THEN MergeOutcome(at, ds, MergeError("mutually_exclusive", NoStep, <<>>))
    ELSE merge_resolve(cur, at, ds, inps, exclude, include)

merge_artifacts_both_filters(cur, at, ds, inps, exclude, include) ==
    IF graph[cur].type # "join"
    THEN MergeOutcome(at, ds, MergeError("not_a_join", cur, <<>>))
    ELSE merge_resolve(cur, at, ds, inps, exclude, include)

\* FlowSpec.merge_artifacts(inputs, exclude, include); None is the empty list
merge_artifacts(cur, at, ds, inps, exclude, include) ==
    IF graph[cur].type # "join"
    THEN MergeOutcome(at, ds, MergeError("not_a_join", cur, <<>>))
    ELSE IF Len(exclude) > 0 /\ Len(include) > 0
    THEN MergeOutcome(at, ds, MergeError("mutually_exclusive", NoStep, <<>>))
    ELSE merge_resolve(cur, at, ds, inps, exclude, include)

(***************************************************************************)
(* What a join step body does: it assigns attributes, then merges the      *)
(* artifacts of its inbound branches; an exception ends the task.          *)
(***************************************************************************)
BranchNames == <<"A", "B", "C">>
Stores == [ArtifactNames -> Shas \cup {Absent}]
StoredIn(inps) ==
    Cardinality({p \in (DOMAIN inps) \X ArtifactNames : inps[p[1]][p[2]] # Absent})
BranchInputs ==
    {inps \in [1..Len(BranchNames) -> Stores] : StoredIn(inps) <= MaxStored}

\* The subsequences of NameOrder
NameLists ==
    {SelectSeq(NameOrder, LAMBDA v : v \in S) : S \in SUBSET ArtifactNames}

MergeArgs ==
    [exclude : {<<>>}, include : NameLists] \cup
    [exclude : NameLists, include : {<<>>}] \cup
    [exclude : {<<"x">>, <<"y">>}, include : {<<"x">>}]

LocalValue == PyInt(99)

InitMerge ==
    /\ \/ current_step = "j" /\ inputs \in BranchInputs
       \/ current_step \in Steps \ {"j"} /\ inputs \in [{1} -> Stores]
    /\ include_foreach_stack = TRUE
    /\ attrs = EmptyDict
    /\ transition = NoTransition
    /\ datastore = EmptyStore
    /\ merge_args = <<>> /\ _foreach_stack = <<>> /\ _cached_input = <<>>
    /\ flow = <<>> /\ config_decorators = <<>> /\ declared = {}
    /\ result = NoResult

\* self.x = 99 in the join step, before it merges
SetLocal ==
    /\ result = NoResult
    /\ \E n \in UserAttrs :
          /\ attrs' = [attrs EXCEPT ![n] = LocalValue]
          /\ UNCHANGED <<current_step, include_foreach_stack, transition,
                         datastore, inputs, merge_args, foreachVars, classVars, result>>

\* self.merge_artifacts(inputs, exclude=..., include=...)
CallMerge ==
    /\ result = NoResult
    /\ \E args \in MergeArgs :
          \E o \in {merge_artifacts(current_step, attrs, datastore, inputs,
                                    args.exclude, args.include)} :
              /\ attrs' = o.attrs
              /\ datastore' = o.datastore
              /\ result' = o.result
              /\ merge_args' = args
              /\ UNCHANGED <<current_step, include_foreach_stack, transition, inputs,
                             foreachVars, classVars>>

NextJoinBody == SetLocal \/ CallMerge

SpecMerge == InitMerge /\ [][NextJoinBody]_vars

(***************************************************************************)
(* Flow classes: FlowSpecMeta._init_attrs and                              *)
(* FlowSpec._process_config_decorators                                     *)
(***************************************************************************)
MaxMutators == 2        \* most mutator decorations the flow module applies

\* class Base(FlowSpec), class Sub(Base), class GrandSub(Sub)
FlowClasses == {"Base", "Sub", "GrandSub"}

\* cls.__mro__ without cls, FlowSpec and object
Mro(cls) ==
    CASE cls = "Base" -> <<>>
      [] cls = "Sub" -> <<"Base">>
      [] cls = "GrandSub" -> <<"Sub", "Base">>

issubclass(cls, other) == cls = other \/ InSeq(other, Mro(cls))

\* A decorator object of a mutator list.  flow_cls is deco._flow_cls; raises
\* tells whether its pre_mutate raises.
FlowMutator(name, flow_cls, raises) ==
    [name |-> name, kind |-> "FlowMutator", flow_cls |-> flow_cls, raises |-> raises]
StepMutator(name) ==
    [name |-> name, kind |-> "StepMutator", flow_cls |-> "-", raises |-> FALSE]
Mutators ==
    {FlowMutator("f1", "Base", FALSE), FlowMutator("f2", "Sub", FALSE),
     FlowMutator("f3", "Base", TRUE), StepMutator("s1"), StepMutator("s2")}

\* The parameters: dir(cls) lists them in this order.  cfg and CFG are Config
\* parameters (IS_CONFIG_PARAMETER), alpha is a plain Parameter.
DirOrder == <<"CFG", "alpha", "cfg">>
ParameterVars == {"CFG", "alpha", "cfg"}
IS_CONFIG_PARAMETER(var) == var \in {"CFG", "cfg"}
\* param.name.replace("-", "_").lower()
Lower(var) == IF var = "CFG" THEN "cfg" ELSE var

IsParameter == "Parameter"  \* the attribute still is the Parameter object
NotSet == "not set"         \* the class has no attribute of its own
NotCached == <<"None">>     \* _flow_state has no CACHED_PARAMETERS

Event(ev, what, on) == [ev |-> ev, what |-> what, on |-> on]
Logged(f, ev, what, on) == [f EXCEPT !.log = Append(@, Event(ev, what, on))]

Returned(kind, cls) == [op |-> "process", kind |-> kind, step |-> NoStep, info |-> <<cls>>]
NoError == [op |-> "process", kind |-> "running", step |-> NoStep, info |-> <<>>]

RECURSIVE Concat(_)
Concat(seqs) == IF seqs = <<>> THEN <<>> ELSE Head(seqs) \o Concat(Tail(seqs))

_init_attrs_own_only(own, cls) == own[cls]

\* FlowSpecMeta._init_attrs, lines 129-148: a new class extends its
\* FLOW_MUTATORS with the list of every flow class of its MRO, in MRO order;
\* own[cls] are the mutators then registered on cls itself.
RECURSIVE _init_attrs(_, _)
_init_attrs(own, cls) ==
    Concat([i \in 1..Len(Mro(cls)) |-> _init_attrs(own, Mro(cls)[i])]) \o own[cls]

\* The class as FlowSpecMeta.__init__ and its decorators leave it
NewClass(own, cls) ==
    [_configs_processed |-> FALSE,
     FLOW_MUTATORS |-> _init_attrs(own, cls),
     CACHED_PARAMETERS |-> NotCached,
     SET_CONFIG_PARAMETERS |-> <<>>,
     cls_attrs |-> [var \in ParameterVars |-> NotSet],
     graphs |-> 1,
     log |-> <<>>]

\* getattr(cls, var) for a declared parameter: the nearest class of the MRO
\* that had the attribute set, else the Parameter object
getattr_cls(fl, cls, var) ==
    LET chain == <<cls>> \o Mro(cls)
        set == {i \in 1..Len(chain) : fl[chain[i]].cls_attrs[var] # NotSet}
    IN  IF set = {} THEN IsParameter
        ELSE fl[chain[CHOOSE i \in set : \A j \in set : i <= j]].cls_attrs[var]

\* FlowSpec._get_parameters, lines 437-463: the variables it yields when
\* iterated to the end, and the CACHED_PARAMETERS it leaves
_get_parameters(fl, decl, cls) ==
    LET f == fl[cls]
        returned == f.SET_CONFIG_PARAMETERS
        rest == IF f.CACHED_PARAMETERS # NotCached
                THEN SelectSeq(f.CACHED_PARAMETERS, LAMBDA var : ~InSeq(var, returned))
                ELSE SelectSeq(DirOrder, LAMBDA var :
                         /\ var \in decl
                         /\ getattr_cls(fl, cls, var) = IsParameter
                         /\ ~InSeq(var, returned))
    IN  [vars |-> returned \o rest,
         cached |-> IF f.CACHED_PARAMETERS # NotCached THEN f.CACHED_PARAMETERS ELSE rest]

\* FlowSpec._check_parameters(config_parameters=True), lines 229-242: the
\* first config parameter whose lower-cased name was seen before, if any
Duplicate(names) ==
    LET configs == SelectSeq(names, IS_CONFIG_PARAMETER)
        dups == {i \in 1..Len(configs) :
                    \E j \in 1..(i - 1) : Lower(configs[j]) = Lower(configs[i])}
    IN  IF dups = {} THEN <<>>
        ELSE <<configs[CHOOSE i \in dups : \A j \in dups : i <= j]>>

\* lines 345-348 and 257-260: param.init for every parameter that is no config
RECURSIVE init_parameters(_, _, _)
init_parameters(f, names, how) ==
    IF names = <<>> THEN f
    ELSE init_parameters(
             IF IS_CONFIG_PARAMETER(Head(names)) THEN f
             ELSE Logged(f, "init", Head(names), how),
             Tail(names), how)

\* lines 271-287: each config parameter gets its value of config_options (None
\* when there is none), which replaces the class attribute
RECURSIVE resolve_configs(_, _, _)
resolve_configs(f, names, config_options) ==
    IF names = <<>> THEN f
    ELSE LET var == Head(names)
             val == IF Lower(var) \in config_options THEN "value" ELSE "None"
         IN  resolve_configs(
                 IF ~IS_CONFIG_PARAMETER(var) THEN f
                 ELSE [Logged(f, "store", var, val) EXCEPT
                          !.cls_attrs[var] = val,
                          !.SET_CONFIG_PARAMETERS = Append(@, var)],
                 Tail(names), config_options)

RECURSIVE flow_mutators_skipping_others(_, _, _)
flow_mutators_skipping_others(f, cls, decos) ==
    IF decos = <<>> THEN [f |-> f, error |-> NoError]
    ELSE LET deco == Head(decos)
             f1 == Logged(f, "pre_mutate", deco.name, "flow")
         IN  IF deco.kind # "FlowMutator"
             THEN flow_mutators_skipping_others(f, cls, Tail(decos))
             ELSE IF ~(deco.flow_cls = cls) /\ ~issubclass(cls, deco.flow_cls)
             THEN [f |-> f, error |-> Returned("wrong_flow", cls)]
             ELSE IF deco.raises
             THEN [f |-> f1, error |-> Returned("mutator_error", cls)]
             ELSE flow_mutators_skipping_others([f1 EXCEPT !.CACHED_PARAMETERS = NotCached],
                                                cls, Tail(decos))

RECURSIVE flow_mutators_on_any_class(_, _, _)
flow_mutators_on_any_class(f, cls, decos) ==
    IF decos = <<>> THEN [f |-> f, error |-> NoError]
    ELSE LET deco == Head(decos)
             f1 == Logged(f, "pre_mutate", deco.name, "flow")
         IN  IF deco.kind # "FlowMutator"
             THEN [f |-> f, error |-> Returned("non_flow_mutator", cls)]
             ELSE IF deco.raises
             THEN [f |-> f1, error |-> Returned("mutator_error", cls)]
             ELSE flow_mutators_on_any_class([f1 EXCEPT !.CACHED_PARAMETERS = NotCached],
                                             cls, Tail(decos))

\* lines 292-320: the flow-level mutators, in list order
RECURSIVE flow_mutators(_, _, _)
flow_mutators(f, cls, decos) ==
    IF decos = <<>> THEN [f |-> f, error |-> NoError]
    ELSE LET deco == Head(decos)
             f1 == Logged(f, "pre_mutate", deco.name, "flow")
         IN  IF deco.kind # "FlowMutator"
             THEN [f |-> f, error |-> Returned("non_flow_mutator", cls)]
             ELSE IF ~(deco.flow_cls = cls) /\ ~issubclass(cls, deco.flow_cls)
             THEN [f |-> f, error |-> Returned("wrong_flow", cls)]
             ELSE IF deco.raises
             THEN [f |-> f1, error |-> Returned("mutator_error", cls)]
             ELSE flow_mutators([f1 EXCEPT !.CACHED_PARAMETERS = NotCached],
                                cls, Tail(decos))

\* cls._steps: the steps in graph order
StepOrder == <<"start", "a", "b", "j", "end">>
DecoratedSteps == {"start", "a"}
config_decorators_of(cd, step) == IF step \in DOMAIN cd THEN cd[step] ELSE <<>>

\* The (step, decorator) pairs in the order lines 322-323 visit them
StepDecorators(cd) ==
    Concat([i \in 1..Len(StepOrder) |->
               [k \in 1..Len(config_decorators_of(cd, StepOrder[i])) |->
                   [step |-> StepOrder[i],
                    deco |-> config_decorators_of(cd, StepOrder[i])[k]]]])

\* lines 322-342: the step-level mutators, step by step, each in list order
RECURSIVE step_mutators(_, _, _)
step_mutators(f, cls, pairs) ==
    IF pairs = <<>> THEN [f |-> f, error |-> NoError]
    ELSE IF Head(pairs).deco.kind # "StepMutator"
    THEN [f |-> f, error |-> Returned("non_step_mutator", cls)]
    ELSE step_mutators(Logged(f, "pre_mutate", Head(pairs).deco.name, Head(pairs).step),
                       cls, Tail(pairs))

Processed_with_subclasses(fl, cls, f, res) ==
    [flow |-> [c \in DOMAIN fl |->
                  IF c = cls THEN f
                  ELSE IF issubclass(c, cls) THEN [fl[c] EXCEPT !._configs_processed = TRUE]
                  ELSE fl[c]],
     result |-> res]

Processed(fl, cls, f, res) == [flow |-> [fl EXCEPT ![cls] = f], result |-> res]

finish_graph_first(fl, decl, cls, f) ==
    LET f0 == [Logged(f, "_init_graph", "-", "-") EXCEPT !.graphs = @ + 1]
        fl1 == [fl EXCEPT ![cls] = f0]
        params == _get_parameters(fl1, decl, cls)
        f1 == init_parameters([f0 EXCEPT !.CACHED_PARAMETERS = params.cached],
                              params.vars, "strict")
        f2 == Logged(f1, "replace_flow_context", "-", "-")
    IN  Processed(fl, cls, f2, Returned("cls", cls))

\* lines 345-355: parameters, flow context, graph, return cls
finish(fl, decl, cls, f) ==
    LET fl1 == [fl EXCEPT ![cls] = f]
        params == _get_parameters(fl1, decl, cls)
        f1 == init_parameters([f EXCEPT !.CACHED_PARAMETERS = params.cached],
                              params.vars, "strict")
        f2 == Logged(f1, "replace_flow_context", "-", "-")
        f3 == [Logged(f2, "_init_graph", "-", "-") EXCEPT !.graphs = @ + 1]
    IN  Processed(fl, cls, f3, Returned("cls", cls))

mutate_steps_first(fl, cd, decl, cls, f) ==
    LET step_level == step_mutators(f, cls, StepDecorators(cd))
        flow_level == flow_mutators(step_level.f, cls, f.FLOW_MUTATORS)
    IN  IF step_level.error # NoError
        THEN Processed(fl, cls, step_level.f, step_level.error)
        ELSE IF flow_level.error # NoError
        THEN Processed(fl, cls, flow_level.f, flow_level.error)
        ELSE finish(fl, decl, cls, flow_level.f)

\* lines 292-342, then the rest
mutate(fl, cd, decl, cls, f) ==
    LET flow_level == flow_mutators(f, cls, f.FLOW_MUTATORS)
        step_level == step_mutators(flow_level.f, cls, StepDecorators(cd))
    IN  IF flow_level.error # NoError
        THEN Processed(fl, cls, flow_level.f, flow_level.error)
        ELSE IF step_level.error # NoError
        THEN Processed(fl, cls, step_level.f, step_level.error)
        ELSE finish(fl, decl, cls, step_level.f)

slow_path_checking_late(fl, cd, decl, cls, f, config_options) ==
    LET fl1 == [fl EXCEPT ![cls] = f]
        checked == _get_parameters(fl1, decl, cls)
        duplicate == Duplicate(checked.vars)
        f1 == [f EXCEPT !.CACHED_PARAMETERS = checked.cached]
        f2 == resolve_configs(f1, checked.vars, config_options)
    IN  IF duplicate # <<>>
        THEN Processed(fl, cls, Logged(f2, "_check_parameters", "-", "-"),
                       [Returned("duplicate_parameter", cls) EXCEPT !.info = @ \o duplicate])
        ELSE mutate(fl, cd, decl, cls, Logged(f2, "_check_parameters", "-", "-"))

\* lines 263-355: the slow path
slow_path(fl, cd, decl, cls, f, config_options) ==
    LET fl1 == [fl EXCEPT ![cls] = f]
        checked == _get_parameters(fl1, decl, cls)
        duplicate == Duplicate(checked.vars)
        f1 == [Logged(f, "_check_parameters", "-", "-") EXCEPT
                  !.CACHED_PARAMETERS = checked.cached]
        f2 == resolve_configs(f1, checked.vars, config_options)
    IN  IF duplicate # <<>>
        THEN Processed(fl, cls, Logged(f, "_check_parameters", "-", "-"),
                       [Returned("duplicate_parameter", cls) EXCEPT !.info = @ \o duplicate])
        ELSE mutate(fl, cd, decl, cls, f2)

fast_path_skipping_parameters(fl, decl, cls, f, process_configs) ==
    Processed(fl, cls, f, Returned("None", cls))

\* lines 252-261: the fast path
fast_path(fl, decl, cls, f, process_configs) ==
    LET fl1 == [fl EXCEPT ![cls] = f]
        params == _get_parameters(fl1, decl, cls)
    IN  Processed(fl, cls,
            init_parameters([f EXCEPT !.CACHED_PARAMETERS = params.cached], params.vars,
                            IF process_configs THEN "strict" ELSE "ignore_errors"),
            Returned("None", cls))

_process_config_decorators_latching_late(fl, cd, decl, cls, config_options, process_configs) ==
    IF fl[cls]._configs_processed
    THEN Processed(fl, cls, fl[cls], Returned("None", cls))
    ELSE LET f == fl[cls]
             o == IF ~process_configs \/
                     (f.FLOW_MUTATORS = <<>> /\
                      \A i \in 1..Len(StepOrder) :
                          Len(config_decorators_of(cd, StepOrder[i])) = 0)
                  THEN fast_path(fl, decl, cls, f, process_configs)
                  ELSE slow_path(fl, cd, decl, cls, f, config_options)
         IN  IF o.result.kind = "cls"
             THEN [o EXCEPT !.flow[cls]._configs_processed = TRUE]
             ELSE o

\* FlowSpec._process_config_decorators(config_options, process_configs)
_process_config_decorators(fl, cd, decl, cls, config_options, process_configs) ==
    IF fl[cls]._configs_processed
    THEN Processed(fl, cls, fl[cls], Returned("None", cls))
    ELSE LET f == [fl[cls] EXCEPT !._configs_processed = TRUE]
         IN  IF ~process_configs \/
                (f.FLOW_MUTATORS = <<>> /\
                 \A i \in 1..Len(StepOrder) :
                     Len(config_decorators_of(cd, StepOrder[i])) = 0)
             THEN fast_path(fl, decl, cls, f, process_configs)
             ELSE slow_path(fl, cd, decl, cls, f, config_options)

(***************************************************************************)
(* What a process does with the flow classes of a module: the module is    *)
(* imported, which creates and decorates the classes, and the framework    *)
(* then runs the pipeline on them, any number of times.                    *)
(***************************************************************************)
Slots == {"Base", "Sub"} \cup DecoratedSteps
\* Each decoration creates a decorator object of its own.
Decorations ==
    {ds \in SeqsUpTo(Slots \X Mutators, MaxMutators) :
        \A i, j \in 1..Len(ds) : ds[i][2] = ds[j][2] => i = j}
DecoratorsOn(decorations, slot) ==
    LET on == SelectSeq(decorations, LAMBDA d : d[1] = slot)
    IN  [i \in 1..Len(on) |-> on[i][2]]
Declarations == {{"alpha"}, {"alpha", "cfg"}, {"alpha", "cfg", "CFG"}}
ConfigOptions == {{}, {"cfg"}}

InitConfig ==
    /\ current_step = "start"
    /\ include_foreach_stack = TRUE
    /\ attrs = EmptyDict
    /\ transition = NoTransition
    /\ datastore = EmptyStore
    /\ inputs = <<>>
    /\ merge_args = <<>> /\ _foreach_stack = <<>> /\ _cached_input = <<>>
    /\ \E decorations \in Decorations :
          /\ flow = [cls \in FlowClasses |->
                        NewClass([c \in FlowClasses |-> DecoratorsOn(decorations, c)], cls)]
          /\ config_decorators = [step \in DecoratedSteps |-> DecoratorsOn(decorations, step)]
    /\ declared \in Declarations
    /\ result = NoResult

\* cls._process_config_decorators(config_options, process_configs)
Process ==
    \E cls \in FlowClasses, config_options \in ConfigOptions, process_configs \in BOOLEAN :
        \E o \in {_process_config_decorators(flow, config_decorators, declared, cls,
                                             config_options, process_configs)} :
            /\ flow' = o.flow
            /\ result' = o.result
            /\ UNCHANGED <<taskVars, config_decorators, declared>>

NextConfig == Process

SpecConfig == InitConfig /\ [][NextConfig]_vars

(***************************************************************************)
(* FlowSpec.index, FlowSpec.input, FlowSpec.foreach_stack and              *)
(* FlowSpec._find_input                                                    *)
(***************************************************************************)
MaxDepth == 2           \* deepest nesting of foreach splits above the task

\* ForeachFrame(step, var, num_splits, index) of the task's _foreach_stack
Frame(step, var, num_splits, index) ==
    [step |-> step, var |-> var, num_splits |-> num_splits, index |-> index]

\* The items of foreach variables: the i-th item (from 0) of the list src
Item(src, i) == [tag |-> "item", src |-> src, at |-> i]
ListFrom(src, n) == PyList([i \in 1..n |-> Item(src, i - 1)])
\* An iterable that supports no subscript
PySet(items) == [tag |-> "set", items |-> items]

\* The object an artifact of the datastore unpickles to: sha1 is a list as
\* long as any split, sha2 a list of one item a later step assigned.
Unpickled(sha) == IF sha = "sha1" THEN ListFrom("sha1", MaxSplits) ELSE ListFrom("sha2", 1)
ValueOf(v) == IF v.tag = "artifact" THEN Unpickled(v.sha) ELSE v

NotCachedInput == [tag |-> "not cached"]
EmptyCache == [i \in 0..(MaxDepth - 1) |-> NotCachedInput]
IsCached(cache, i) == i \in DOMAIN cache /\ cache[i] # NotCachedInput

Found(at, cache, kind, value) ==
    [attrs |-> at, cache |-> cache, kind |-> kind, value |-> value]

\* lines 611-617: var[frame.index], and on TypeError
\* next(islice(var, frame.index, frame.index + 1))
subscript(var, index) ==
    CASE var.tag = "list" ->
             IF index < Len(var.items)
             THEN [kind |-> "ok", value |-> var.items[index + 1]]
             ELSE [kind |-> "IndexError", value |-> PyNone]
      [] var.tag = "set" ->
             IF index < Len(var.items)
             THEN [kind |-> "ok", value |-> var.items[index + 1]]
             ELSE [kind |-> "StopIteration", value |-> PyNone]
      [] OTHER -> [kind |-> "TypeError", value |-> PyNone]

_find_input_uncached(at, ds, stack, cache, stack_index) ==
    LET i == IF stack_index = PyNone THEN Len(stack) - 1 ELSE stack_index.n
        frame == stack[i + 1]
        got == subscript(ValueOf(GetAttr(at, ds, frame.var)), frame.index)
        at1 == AfterGetattr(at, ds, frame.var)
    IN  IF stack # <<>>
        THEN IF ~HasAttr(at, ds, frame.var)
             THEN Found(at, [cache EXCEPT ![i] = PyNone], "ok", PyNone)
             ELSE IF got.kind = "ok"
             THEN Found(at1, [cache EXCEPT ![i] = got.value], "ok", got.value)
             ELSE Found(at1, cache, got.kind, PyNone)
        ELSE Found(at, cache, "ok", PyNone)

_find_input_raising(at, ds, stack, cache, stack_index) ==
    LET i == IF stack_index = PyNone THEN Len(stack) - 1 ELSE stack_index.n
        frame == stack[i + 1]
        got == subscript(ValueOf(GetAttr(at, ds, frame.var)), frame.index)
        at1 == AfterGetattr(at, ds, frame.var)
    IN  IF IsCached(cache, i)
        THEN Found(at, cache, "ok", cache[i])
        ELSE IF stack # <<>>
        THEN IF ~HasAttr(at, ds, frame.var)
             THEN Found(at, cache, "AttributeError", PyNone)
             ELSE IF got.kind = "ok"
             THEN Found(at1, [cache EXCEPT ![i] = got.value], "ok", got.value)
             ELSE Found(at1, cache, got.kind, PyNone)
        ELSE Found(at, cache, "ok", PyNone)

\* FlowSpec._find_input(stack_index), lines 588-618; stack_index counts from 0
_find_input(at, ds, stack, cache, stack_index) ==
    LET i == IF stack_index = PyNone THEN Len(stack) - 1 ELSE stack_index.n
        frame == stack[i + 1]
        got == subscript(ValueOf(GetAttr(at, ds, frame.var)), frame.index)
        at1 == AfterGetattr(at, ds, frame.var)
    IN  IF IsCached(cache, i)
        THEN Found(at, cache, "ok", cache[i])
        ELSE IF stack # <<>>
        THEN IF ~HasAttr(at, ds, frame.var)
             THEN Found(at, [cache EXCEPT ![i] = PyNone], "ok", PyNone)
             ELSE IF got.kind = "ok"
             THEN Found(at1, [cache EXCEPT ![i] = got.value], "ok", got.value)
             ELSE Found(at1, cache, got.kind, PyNone)
        ELSE Found(at, cache, "ok", PyNone)

\* FlowSpec.index, lines 497-515
index(stack) == IF stack # <<>> THEN PyInt(stack[Len(stack)].index) ELSE PyNone

\* FlowSpec.input, lines 517-534
input(at, ds, stack, cache) == _find_input(at, ds, stack, cache, PyNone)

StackTuple(frame, value) ==
    [index |-> frame.index, num_splits |-> frame.num_splits, value |-> value]

foreach_stack_innermost_first(at, ds, stack, cache, i, tuples) ==
    LET RECURSIVE go(_, _, _, _)
        go(at0, cache0, k, acc) ==
            IF k >= Len(stack)
            THEN [attrs |-> at0, cache |-> cache0, kind |-> "ok", value |-> acc]
            ELSE LET found == _find_input(at0, ds, stack, cache0, PyInt(k))
                 IN  IF found.kind # "ok"
                     THEN [attrs |-> found.attrs, cache |-> found.cache,
                           kind |-> found.kind, value |-> <<>>]
                     ELSE go(found.attrs, found.cache, k + 1,
                             <<StackTuple(stack[k + 1], found.value)>> \o acc)
    IN  go(at, cache, i, tuples)

\* FlowSpec.foreach_stack, lines 583-586: the tuples of the frames from the
\* i-th on, appended to tuples
RECURSIVE foreach_stack(_, _, _, _, _, _)
foreach_stack(at, ds, stack, cache, i, tuples) ==
    IF i >= Len(stack)
    THEN [attrs |-> at, cache |-> cache, kind |-> "ok", value |-> tuples]
    ELSE LET found == _find_input(at, ds, stack, cache, PyInt(i))
         IN  IF found.kind # "ok"
             THEN [attrs |-> found.attrs, cache |-> found.cache,
                   kind |-> found.kind, value |-> <<>>]
             ELSE foreach_stack(found.attrs, ds, stack, found.cache, i + 1,
                                Append(tuples, StackTuple(stack[i + 1], found.value)))

(***************************************************************************)
(* What a step body does inside nested foreach splits: it reads index,     *)
(* input and foreach_stack(), in any order and any number of times, and it *)
(* may assign the attribute a frame names.                                 *)
(***************************************************************************)
Frames ==
    {Frame("start", var, num_splits, i) :
        var \in UserAttrs, num_splits \in 1..MaxSplits, i \in 0..(MaxSplits - 1)}
Stacks ==
    {stack \in SeqsUpTo(Frames, MaxDepth) :
        \A k \in 1..Len(stack) : stack[k].index < stack[k].num_splits}
\* What the task's datastore holds of the foreach variables
ForeachStores ==
    {[n \in ArtifactNames |-> IF n = "x" THEN sx ELSE IF n = "y" THEN sy ELSE Absent] :
        sx \in Shas \cup {Absent}, sy \in {"sha1", Absent}}
AssignedValues == {ListFrom("step", MaxSplits), PyInt(5), PySet(<<Item("set", 0)>>)}

Read(op, kind, info) == [op |-> op, kind |-> kind, step |-> NoStep, info |-> info]

InitForeach ==
    /\ current_step = "a"
    /\ include_foreach_stack = TRUE
    /\ attrs = EmptyDict
    /\ transition = NoTransition
    /\ datastore \in ForeachStores
    /\ inputs = <<>>
    /\ merge_args = <<>>
    /\ _foreach_stack \in Stacks
    /\ _cached_input = EmptyCache
    /\ flow = <<>> /\ config_decorators = <<>> /\ declared = {}
    /\ result = NoResult

\* self.x = v
AssignForeachVar ==
    \E v \in AssignedValues :
        /\ attrs' = [attrs EXCEPT !["x"] = v]
        /\ UNCHANGED <<current_step, include_foreach_stack, transition, datastore,
                       inputs, merge_args, foreachVars, classVars, result>>

\* self.index
ReadIndex ==
    /\ result' = Read("index", "ok", <<index(_foreach_stack)>>)
    /\ UNCHANGED <<taskVars, classVars>>

\* self.input
ReadInput ==
    \E o \in {input(attrs, datastore, _foreach_stack, _cached_input)} :
        /\ attrs' = o.attrs
        /\ _cached_input' = o.cache
        /\ result' = Read("input", o.kind, <<o.value>>)
        /\ UNCHANGED <<current_step, include_foreach_stack, transition, datastore,
                       inputs, merge_args, _foreach_stack, classVars>>

\* self.foreach_stack()
CallForeachStack ==
    \E o \in {foreach_stack(attrs, datastore, _foreach_stack, _cached_input, 0, <<>>)} :
        /\ attrs' = o.attrs
        /\ _cached_input' = o.cache
        /\ result' = Read("foreach_stack", o.kind, o.value)
        /\ UNCHANGED <<current_step, include_foreach_stack, transition, datastore,
                       inputs, merge_args, _foreach_stack, classVars>>

\* self._find_input(stack_index=i)
CallFindInput ==
    \E i \in 0..(Len(_foreach_stack) - 1) :
        \E o \in {_find_input(attrs, datastore, _foreach_stack, _cached_input, PyInt(i))} :
            /\ attrs' = o.attrs
            /\ _cached_input' = o.cache
            /\ result' = Read("_find_input", o.kind, <<PyInt(i), o.value>>)
            /\ UNCHANGED <<current_step, include_foreach_stack, transition, datastore,
                           inputs, merge_args, _foreach_stack, classVars>>

NextForeachBody ==
    AssignForeachVar \/ ReadIndex \/ ReadInput \/ CallForeachStack \/ CallFindInput

SpecForeach == InitForeach /\ [][NextForeachBody]_vars

(***************************************************************************)
(* Properties of FlowSpec.next, checked under SpecNext.  CallOn(args) is   *)
(* what a next() call with these arguments does in the current state; the  *)
(* action CallNext applies the same operator.                              *)
(***************************************************************************)
CallOn(args) ==
    next(current_step, include_foreach_stack, attrs, datastore, transition, args)

Args(dsts, foreach, num_parallel) ==
    [dsts |-> dsts, foreach |-> foreach, num_parallel |-> num_parallel,
     kwargs |-> <<>>]

\* A valid destination: a method of the flow that is one of its steps.
ValidDsts == {Method(n) : n \in Steps} \cap DstArgs
ValidDstLists == {l \in DstLists : \A i \in 1..Len(l) : l[i] \in ValidDsts}
NamesOf(l) == [i \in 1..Len(l) |-> l[i].name]

IsParallel(np) == np # PyNone /\ np.n >= 1
NoParallel == {np \in NumParallelArgs : ~IsParallel(np)}

ReservedForeach == PyStr("_parallel_ubf_iter")

\* The destination has exactly one outgoing edge and its target is a join.
SingleJoinBelow(name) ==
    /\ Len(graph[name].out_funcs) = 1
    /\ graph[graph[name].out_funcs[1]].type = "join"

Recorded == transition.tag = "tuple"

\* C1, as stated: once a Transition is recorded, every further next() call
\* fails with the multiple-transitions error whatever its arguments are
\* (other keyword arguments included) and leaves the Transition unchanged.
C1_AlwaysMultipleTransitions ==
    Recorded =>
        \A args \in NextArgs :
            LET o == CallOn(args) IN
            /\ o.result.kind = "multiple_transitions"
            /\ o.transition = transition

\* C1, amended: once a Transition is recorded, every further next() call fails
\* and leaves the Transition and the attributes unchanged; the error is the
\* unknown-keyword error when the call passes an unknown keyword argument and
\* the multiple-transitions error otherwise.
C1_SecondCallFails ==
    Recorded =>
        \A args \in NextArgs :
            LET o == CallOn(args) IN
            /\ o.result.kind = IF args.kwargs # <<>> THEN "unknown_keyword"
                               ELSE "multiple_transitions"
            /\ o.transition = transition
            /\ o.attrs = attrs

\* A second call has been made and refused.
C1_Witness == Recorded /\ result.kind = "multiple_transitions"

\* C6: a first next() call (no unknown keyword, num_parallel absent or below 1)
\* with foreach naming a list and one valid destination fails with the
\* zero-splits error and records nothing when the list is empty, and otherwise
\* succeeds, records the Transition and sets the split count to the length.
C6_BoundedForeachSplits ==
    (~Recorded /\ attrs["x"].tag = "list") =>
        \A d \in ValidDsts, np \in NoParallel :
            LET o == CallOn(Args(<<d>>, PyStr("x"), np))
                n == Len(attrs["x"].items)
            IN  IF n = 0
                THEN /\ o.result.kind = "zero_splits"
                     /\ o.transition = NoTransition
                ELSE /\ o.result.kind = "ok"
                     /\ o.transition = Transition(<<d.name>>, PyStr("x"))
                     /\ o.attrs["_foreach_num_splits"] = PyInt(n)

\* A foreach over the longest list has been recorded with its split count.
C6_Witness ==
    /\ Recorded
    /\ result.kind = "ok"
    /\ transition.foreach = PyStr("x")
    /\ attrs["x"] = ListOf(MaxSplits)
    /\ attrs["_foreach_num_splits"] = PyInt(MaxSplits)

\* C7, as stated: a next() call given a foreach and a number of destinations
\* other than one always fails and records no Transition, so every recorded
\* Transition with a foreach has exactly one destination.
C7_ForeachNeedsOneDestination ==
    (Recorded /\ transition.foreach # PyNone) => Len(transition.funcs) = 1

\* C8: a first next() call without foreach (no unknown keyword, num_parallel
\* absent or below 1) fails and records nothing with zero destinations, and
\* succeeds, recording them, with one or more valid destinations.
C8_NoForeachNeedsDestination ==
    ~Recorded =>
        \A dsts \in ValidDstLists, np \in NoParallel :
            LET o == CallOn(Args(dsts, PyNone, np)) IN
            IF Len(dsts) = 0
            THEN /\ o.result.kind = "no_destination"
                 /\ o.transition = NoTransition
            ELSE /\ o.result.kind = "ok"
                 /\ o.transition = Transition(NamesOf(dsts), PyNone)

\* A call without foreach and without destination has been refused.
C8_Witness == ~Recorded /\ result.kind = "no_destination"

ParallelRecorded(o, d, n) ==
    /\ o.result.kind = "ok"
    /\ o.transition = Transition(<<d.name>>, ReservedForeach)
    /\ o.attrs["_parallel_ubf_iter"] = ParallelUBF(n)

RankIsSplitIndex ==
    /\ \A r \in 0..MaxParallel : ParallelUBF_getitem(PyInt(r)) = PyInt(r)
    /\ ParallelUBF_getitem(PyNone) = PyInt(0)

\* C9, as stated: a first next(dst, num_parallel=n) with n >= 1 and one valid
\* destination records a Transition with that destination and the reserved
\* foreach variable, which holds a ParallelUBF of width n; indexing it with
\* rank r gives r, and 0 for rank None.
C9_ParallelAlwaysRecorded ==
    /\ RankIsSplitIndex
    /\ ~Recorded =>
           \A d \in ValidDsts, n \in 1..MaxParallel :
               ParallelRecorded(CallOn(Args(<<d>>, PyNone, PyInt(n))), d, n)

\* C9, amended: the same, for a valid destination whose only outgoing edge
\* leads to a join.
C9_ParallelRecorded ==
    /\ RankIsSplitIndex
    /\ ~Recorded =>
           \A d \in ValidDsts, n \in 1..MaxParallel :
               SingleJoinBelow(d.name) =>
                   ParallelRecorded(CallOn(Args(<<d>>, PyNone, PyInt(n))), d, n)

\* A parallel split of the largest width has been recorded.
C9_Witness ==
    /\ Recorded
    /\ result.kind = "ok"
    /\ transition.foreach = ReservedForeach
    /\ attrs["_parallel_ubf_iter"] = ParallelUBF(MaxParallel)

\* C10: a first next() call (no unknown keyword) with one valid destination
\* whose foreach value is an unbounded-foreach input (self.x holding one, or
\* the ParallelUBF of num_parallel >= 1) succeeds exactly when the destination
\* has one outgoing edge and its target is a join; otherwise it fails with an
\* InvalidNext topology error and records no Transition.
C10_UnboundedForeachTopology ==
    ~Recorded =>
        \A d \in ValidDsts, np \in NumParallelArgs :
            (IsParallel(np) \/ IsUnboundedForeachInput(attrs["x"])) =>
                LET o == CallOn(Args(<<d>>, PyStr("x"), np)) IN
                IF SingleJoinBelow(d.name)
                THEN /\ o.result.kind = "ok"
                     /\ o.transition =
                            Transition(<<d.name>>,
                                IF IsParallel(np) THEN ReservedForeach ELSE PyStr("x"))
                ELSE /\ o.result.kind \in {"ubf_single_node", "ubf_join_type"}
                     /\ o.transition = NoTransition

\* An unbounded foreach into a step that does not lead to a join was refused.
C10_Witness ==
    /\ ~Recorded
    /\ result.kind = "ubf_join_type"
    /\ attrs["x"] = Ubf

\* C14: every error next() raises names the step that is executing.
C14_ErrorsNameStep ==
    (result.op = "next" /\ result.kind # "ok") => result.step = current_step

\* The rules of next() in the order the specification lists them.  The
\* foreach a call is validated with is the reserved variable when
\* num_parallel >= 1 and the foreach argument otherwise.
EffectiveForeach(args) ==
    IF IsParallel(args.num_parallel) THEN ReservedForeach ELSE args.foreach
ForeachValue(args) ==
    IF IsParallel(args.num_parallel) THEN ParallelUBF(args.num_parallel.n)
    ELSE attrs[args.foreach.s]
IsStepMethod(d) == d.kind = "method" /\ d.name \in Steps
IsFlowMethod(d) == d.kind = "method" /\ HasAttr(attrs, datastore, d.name)
FirstInvalid(dsts, Valid(_)) ==
    CHOOSE i \in 1..Len(dsts) :
        ~Valid(dsts[i]) /\ \A k \in 1..(i - 1) : Valid(dsts[k])

\* The error of the earliest rule the call violates, "ok" when it violates
\* none; Given(foreach) tells whether the call counts as giving a foreach.
FirstViolated(args, Given(_)) ==
    LET dsts == args.dsts
        foreach == EffectiveForeach(args)
    IN  IF args.kwargs # <<>> THEN "unknown_keyword"
        ELSE IF Recorded THEN "multiple_transitions"
        ELSE IF \E i \in 1..Len(dsts) : ~IsFlowMethod(dsts[i])
        THEN IF dsts[FirstInvalid(dsts, IsFlowMethod)].kind # "method"
             THEN "not_a_function" ELSE "unknown_step"
        ELSE IF IsParallel(args.num_parallel) /\ Len(dsts) > 1
        THEN "parallel_one_destination"
        ELSE IF Given(foreach)
        THEN IF foreach.tag # "str" THEN "foreach_not_string"
             ELSE IF Len(dsts) # 1 THEN "foreach_one_target"
             ELSE IF ~HasAttr(attrs, datastore, foreach.s) /\ ~IsParallel(args.num_parallel)
             THEN "foreach_missing"
             ELSE IF IsUnboundedForeachInput(ForeachValue(args))
             THEN IF dsts[1].name \notin Steps THEN "KeyError"
                  ELSE IF Len(graph[dsts[1].name].out_funcs) # 1 THEN "ubf_single_node"
                  ELSE IF ~SingleJoinBelow(dsts[1].name) THEN "ubf_join_type"
                  ELSE "ok"
             ELSE IF ForeachValue(args).tag # "list" THEN "not_iterable"
             ELSE IF Len(ForeachValue(args).items) = 0 THEN "zero_splits"
             ELSE "ok"
        ELSE IF Len(dsts) < 1 THEN "no_destination"
        ELSE "ok"

\* C25: every next() call reports the earliest rule it violates, in the order
\* unknown keyword, transition already set, invalid destination, num_parallel
\* with several destinations, foreach validity (string, one destination,
\* variable exists, unbounded topology or iterable with splits), missing
\* destination; a foreach is given whenever the argument is not None.
C25_EarliestViolatedRule ==
    \A args \in NextArgs :
        CallOn(args).result.kind = FirstViolated(args, LAMBDA foreach : foreach # PyNone)

\* C25 for the foreach values Python holds true: the order of the rules is the
\* stated one.
C25_OrderForTruthyForeach ==
    \A args \in NextArgs :
        (args.foreach = PyNone \/ Truthy(args.foreach)) =>
            CallOn(args).result.kind = FirstViolated(args, LAMBDA foreach : foreach # PyNone)

\* C26: a next() call succeeds only if every destination argument is a bound
\* method whose name is a step of the flow; any other argument makes the call
\* fail and leaves the Transition as it was; on success the recorded
\* destinations are the names of the arguments in argument order.
C26_OnlyStepsAccepted ==
    \A args \in NextArgs :
        LET o == CallOn(args) IN
        /\ o.result.kind = "ok" => o.transition.funcs = NamesOf(args.dsts)
        /\ (\E i \in 1..Len(args.dsts) : ~IsStepMethod(args.dsts[i])) =>
              /\ o.result.kind # "ok"
              /\ o.transition = transition

\* C27: a next() call that gives a foreach argument (and no num_parallel >= 1,
\* which replaces it) succeeds only if the argument is a string naming an
\* attribute of the task; otherwise it fails and records no Transition.
C27_ForeachNamesAttribute ==
    \A args \in NextArgs :
        (args.foreach # PyNone /\ ~IsParallel(args.num_parallel)) =>
            LET o == CallOn(args) IN
            \/ /\ o.result.kind = "ok"
               /\ args.foreach.tag = "str"
               /\ HasAttr(attrs, datastore, args.foreach.s)
            \/ /\ o.result.kind # "ok"
               /\ o.transition = transition

\* C28: with num_parallel >= 1 a next() call succeeds only with exactly one
\* destination; with none or several it fails and leaves the Transition as it
\* was.  When it succeeds the recorded foreach is the reserved parallel
\* variable, whatever foreach argument the caller passed.
C28_ParallelOneDestination ==
    \A args \in NextArgs :
        IsParallel(args.num_parallel) =>
            LET o == CallOn(args) IN
            /\ o.result.kind = "ok" =>
                  /\ Len(args.dsts) = 1
                  /\ o.transition = Transition(NamesOf(args.dsts), ReservedForeach)
            /\ Len(args.dsts) # 1 =>
                  /\ o.result.kind # "ok"
                  /\ o.transition = transition
            /\ (~Recorded /\ args.kwargs = <<>> /\ Len(args.dsts) = 1
                /\ IsStepMethod(args.dsts[1]) /\ SingleJoinBelow(args.dsts[1].name)) =>
                  o.result.kind = "ok"

\* A parallel split of width 1 was recorded as a foreach over the reserved
\* variable in a task that also has a list in x.
C28_Witness ==
    /\ Recorded /\ result.kind = "ok"
    /\ Len(transition.funcs) = 1
    /\ transition.foreach = ReservedForeach
    /\ attrs["_parallel_ubf_iter"] = ParallelUBF(1)
    /\ attrs["_foreach_var"] = ReservedForeach
    /\ attrs["x"] = ListOf(1)

\* C29: a next() call whose num_parallel is given but below 1 does exactly
\* what the same call without num_parallel does; with valid destinations and
\* no foreach it records an ordinary Transition, creates no ParallelUBF and
\* does not mark the step unbounded.
C29_NonPositiveParallelIgnored ==
    \A args \in NextArgs :
        (args.num_parallel # PyNone /\ args.num_parallel.n < 1) =>
            /\ CallOn(args) = CallOn([args EXCEPT !.num_parallel = PyNone])
            /\ CallOn(args).result.kind # "parallel_one_destination"
            /\ CallOn(args).attrs["_parallel_ubf_iter"] = attrs["_parallel_ubf_iter"]
            /\ (~Recorded /\ args.kwargs = <<>> /\ args.foreach = PyNone
                /\ args.dsts \in ValidDstLists /\ Len(args.dsts) >= 1) =>
                  /\ CallOn(args).result.kind = "ok"
                  /\ CallOn(args).transition = Transition(NamesOf(args.dsts), PyNone)
                  /\ CallOn(args).attrs = attrs

\* An ordinary Transition without foreach was recorded and the task has
\* neither a ParallelUBF nor the unbounded mark.
C29_Witness ==
    /\ Recorded /\ result.kind = "ok"
    /\ transition = Transition(<<"a">>, PyNone)
    /\ attrs["_parallel_ubf_iter"] = NoAttr
    /\ attrs["_unbounded_foreach"] = NoAttr
    /\ attrs["_foreach_var"] = NoAttr

MarkedUnbounded(at) == at["_unbounded_foreach"] = PyTrue
\* The foreach of the Transition names an attribute holding an unbounded input
HoldsUnbounded(at, tr) ==
    /\ tr.foreach.tag = "str"
    /\ tr.foreach.s \in DOMAIN at
    /\ IsUnboundedForeachInput(at[tr.foreach.s])

\* C33: whenever a Transition is recorded, the step is marked unbounded if
\* and only if the recorded foreach variable holds an unbounded-foreach
\* input, also when failed next() calls came before the successful one.
C33_UnboundedIffUnboundedInput ==
    Recorded => (MarkedUnbounded(attrs) <=> HoldsUnbounded(attrs, transition))

\* C33 for a successful call in a task where no call has marked the step yet
C33_MarkedByTheRecordingCall ==
    (~Recorded /\ ~MarkedUnbounded(attrs)) =>
        \A args \in NextArgs :
            \A o \in {CallOn(args)} :
                o.result.kind = "ok" =>
                    (MarkedUnbounded(o.attrs) <=> HoldsUnbounded(o.attrs, o.transition))

\* A call that violates no rule, with a foreach that is None or true
ValidCall(args) ==
    /\ args.foreach = PyNone \/ Truthy(args.foreach)
    /\ FirstViolated(args, LAMBDA foreach : foreach # PyNone) = "ok"

\* C35: a next() call that fails leaves the Transition as it was, so after
\* any number of failed calls none is recorded, and a valid call then
\* succeeds and records its own destinations and foreach.
C35_FailedCallRecordsNothing ==
    \A args \in NextArgs :
        \A o \in {CallOn(args)} :
            /\ o.result.kind # "ok" => o.transition = transition
            /\ (~Recorded /\ ValidCall(args)) =>
                  /\ o.result.kind = "ok"
                  /\ o.transition = Transition(NamesOf(args.dsts), EffectiveForeach(args))

\* An unbounded foreach was refused for its topology, which left its mark on
\* the task, and a later call without foreach into step a was recorded.
C35_Witness ==
    /\ Recorded /\ result.kind = "ok"
    /\ transition = Transition(<<"a">>, PyNone)
    /\ MarkedUnbounded(attrs)

\* C36: a recorded Transition has at least one destination, whatever the
\* arguments of the call were.
C36_AtLeastOneDestination ==
    Recorded => Len(transition.funcs) >= 1

(***************************************************************************)
(* Properties of FlowSpec.merge_artifacts, checked under SpecMerge.  A     *)
(* property of "every call" is stated in the states where the join step    *)
(* has not merged yet, for the call merge_artifacts(inputs, ...) applied   *)
(* to that state.                                                          *)
(***************************************************************************)
MergeOn(args) ==
    merge_artifacts(current_step, attrs, datastore, inputs, args.exclude, args.include)

BeforeMerge == result = NoResult
Merged == result.op = "merge"
OneFilter == {args \in MergeArgs : args.exclude = <<>> \/ args.include = <<>>}

StoredShas(var) == {inputs[i][var] : i \in DOMAIN inputs} \ {Absent}
SetOnSelf(var) == HasAttr(attrs, datastore, var)

\* The names the code resolves: stored in a branch and passing the filter
Resolvable(args, var) ==
    /\ StoredShas(var) # {}
    /\ is_candidate(attrs, datastore, args.exclude, args.include, var)

\* A merge candidate as the specification defines it
Candidate(args, var) ==
    /\ StoredShas(var) # {}
    /\ IF args.include # <<>> THEN InSeq(var, args.include) ELSE ~InSeq(var, args.exclude)
    /\ var \notin INTERNAL_ARTIFACTS_SET
    /\ ~SetOnSelf(var)

\* C2: merge_artifacts is all-or-nothing.  Whatever the branches hold and
\* whatever include/exclude are, a call that fails (not a join, include and
\* exclude both given, a conflict, a missing name) leaves the task's datastore
\* as it was, and a call that succeeds has written every resolved candidate
\* name with a fingerprint its branches store.
C2_AllOrNothing ==
    /\ (Merged /\ result.kind # "ok") => datastore = EmptyStore
    /\ BeforeMerge =>
          \A args \in MergeArgs :
              LET o == MergeOn(args)
              IN  /\ o.result.kind # "ok" => o.datastore = datastore
                  /\ o.result.kind = "ok" =>
                        \A var \in ArtifactNames :
                            Resolvable(args, var) => o.datastore[var] \in StoredShas(var)

\* A merge that failed on x while the branches also store y, which the join
\* step has not set, and wrote nothing.
C2_Witness ==
    /\ Merged /\ result.kind = "unhandled" /\ result.info = <<"x">>
    /\ StoredShas("y") # {} /\ ~SetOnSelf("y")
    /\ datastore = EmptyStore

\* C3: in a join step, with at most one of include and exclude given, every
\* merge candidate name that two branches store with different fingerprints
\* makes the call fail with the unresolved-conflict error, and the reported
\* list holds every such name.
C3_ConflictsReported ==
    (BeforeMerge /\ graph[current_step].type = "join") =>
        \A args \in OneFilter :
            \A var \in ArtifactNames :
                (Candidate(args, var) /\ Cardinality(StoredShas(var)) > 1) =>
                    /\ MergeOn(args).result.kind = "unhandled"
                    /\ MergeOn(args).result.step = current_step
                    /\ InSeq(var, MergeOn(args).result.info)

\* A merge that failed on two conflicting names and reported both.
C3_Witness ==
    /\ Merged /\ result.kind = "unhandled"
    /\ InSeq("x", result.info) /\ InSeq("y", result.info)
    /\ Cardinality(StoredShas("x")) > 1 /\ Cardinality(StoredShas("y")) > 1

\* C4: a name the join step has set before it merges is never a merge
\* candidate.  No call reports it as a conflict, even when the branches
\* disagree on it, none reports it missing, and after a successful merge the
\* join step still has the value it set and nothing was copied under the name.
C4_LocalNeverMerged ==
    /\ Merged =>
          \A var \in UserAttrs :
              attrs[var] = LocalValue =>
                  /\ ~InSeq(var, result.info)
                  /\ datastore[var] = Absent
    /\ BeforeMerge =>
          \A args \in MergeArgs :
              \A var \in UserAttrs :
                  attrs[var] = LocalValue =>
                      LET o == MergeOn(args)
                      IN  /\ ~InSeq(var, o.result.info)
                          /\ o.attrs[var] = LocalValue
                          /\ o.datastore[var] = datastore[var]

\* The join step set x, two branches disagree on x, and the merge succeeded
\* and copied y.
C4_Witness ==
    /\ Merged /\ result.kind = "ok"
    /\ attrs["x"] = LocalValue
    /\ Cardinality(StoredShas("x")) > 1
    /\ datastore["y"] # Absent /\ datastore["x"] = Absent

InJoin == graph[current_step].type = "join"
BothGiven == Len(merge_args.exclude) > 0 /\ Len(merge_args.include) > 0
\* The call made passed both preconditions
Resolving == Merged /\ InJoin /\ ~BothGiven

\* What the call made saw.  The join step's own datastore is empty until it
\* merges, so the names it had set are the names of its dictionary.
WasSet(var) == InDict(attrs, var)
PassedFilter(var) ==
    IF merge_args.include # <<>> THEN InSeq(var, merge_args.include)
    ELSE ~InSeq(var, merge_args.exclude)
WasCandidate(var) ==
    /\ StoredShas(var) # {}
    /\ PassedFilter(var)
    /\ var \notin INTERNAL_ARTIFACTS_SET
    /\ ~WasSet(var)
WasConflict(var) == WasCandidate(var) /\ Cardinality(StoredShas(var)) > 1
WasMissing(var) ==
    InSeq(var, merge_args.include) /\ StoredShas(var) = {} /\ ~WasSet(var)

\* C11: merge_artifacts called in a step whose node type is not join always
\* fails with the not-a-join error, whatever inputs, include and exclude are,
\* and neither the datastore nor the instance has changed.
C11_NotAJoinFails ==
    /\ (Merged /\ ~InJoin) =>
          /\ result = MergeError("not_a_join", current_step, <<>>)
          /\ datastore = EmptyStore
    /\ (BeforeMerge /\ ~InJoin) =>
          \A args \in MergeArgs :
              MergeOn(args) =
                  MergeOutcome(attrs, datastore,
                               MergeError("not_a_join", current_step, <<>>))

\* The start step asked to merge x, which its input stores.
C11_Witness ==
    /\ Merged /\ current_step = "start" /\ result.kind = "not_a_join"
    /\ merge_args.include = <<"x">> /\ StoredShas("x") # {}

\* C12: in a join step, a call with exclude and include both non-empty always
\* fails with the mutually-exclusive error, whatever the branches hold, and
\* writes nothing; a call with at most one of them never fails with that error.
C12_MutuallyExclusive ==
    (Merged /\ InJoin) =>
        /\ BothGiven => /\ result = MergeError("mutually_exclusive", NoStep, <<>>)
                        /\ datastore = EmptyStore
        /\ ~BothGiven => result.kind # "mutually_exclusive"

\* A join step whose branches store y called with include x and exclude y.
C12_Witness ==
    /\ Merged /\ InJoin /\ result.kind = "mutually_exclusive"
    /\ merge_args = [exclude |-> <<"y">>, include |-> <<"x">>]
    /\ StoredShas("y") # {}

\* C15: conflicts and missing names are two error kinds and conflicts come
\* first.  In a call that passed the preconditions, a conflicting candidate
\* gives the unresolved-conflict error even when requested names are missing
\* too; the missing-artifacts error is raised only when no candidate conflicts
\* and a requested name is missing, and it lists every missing name.
C15_ConflictsBeforeMissing ==
    Resolving =>
        /\ result.kind \in {"ok", "unhandled", "missing"}
        /\ (\E var \in ArtifactNames : WasConflict(var)) => result.kind = "unhandled"
        /\ result.kind = "missing" =>
              /\ \A var \in ArtifactNames : ~WasConflict(var)
              /\ \E var \in ArtifactNames : WasMissing(var)
              /\ \A var \in ArtifactNames : WasMissing(var) => InSeq(var, result.info)

\* A call that requested a conflicting name and a missing one, and failed with
\* the conflict.
C15_Witness ==
    /\ Resolving /\ result.kind = "unhandled"
    /\ \E var \in ArtifactNames : WasConflict(var)
    /\ \E var \in ArtifactNames : WasMissing(var)

\* C16: no name of INTERNAL_ARTIFACTS_SET is ever copied into the join step by
\* merge_artifacts or reported as a conflict, with include given or not.
C16_ReservedNeverMerged ==
    Merged =>
        \A var \in INTERNAL_ARTIFACTS_SET \cap ArtifactNames :
            /\ datastore[var] = Absent
            /\ result.kind = "unhandled" => ~InSeq(var, result.info)

\* C17: when include is given and the call reports missing names, the list is
\* exactly the names of include that no branch stores and the join step has
\* not set, in the order of include; without a conflict the missing error is
\* raised exactly when there is such a name.
C17_MissingExactly ==
    (Resolving /\ merge_args.include # <<>>) =>
        /\ result.kind = "missing" =>
              result.info = SelectSeq(merge_args.include, WasMissing)
        /\ result.kind # "unhandled" =>
              (result.kind = "missing" <=> \E var \in ArtifactNames : WasMissing(var))
        /\ \A var \in ArtifactNames :
              (WasSet(var) \/ StoredShas(var) # {}) =>
                  ~(result.kind = "missing" /\ InSeq(var, result.info))

\* The call requested a name the join step had set and no branch stores, and
\* a name nobody has: only the second is reported.
C17_Witness ==
    /\ Resolving /\ result.kind = "missing"
    /\ \E var \in UserAttrs :
          /\ InSeq(var, merge_args.include)
          /\ attrs[var] = LocalValue /\ StoredShas(var) = {}
          /\ ~InSeq(var, result.info)

\* The names the call made resolved, and the first branch storing a name
WasResolved(var) ==
    /\ StoredShas(var) # {}
    /\ ~WasSet(var)
    /\ IF merge_args.include # <<>> THEN InSeq(var, merge_args.include)
       ELSE ~InSeq(var, merge_args.exclude) /\ var \notin INTERNAL_ARTIFACTS_SET
FirstStoring(var) ==
    CHOOSE i \in DOMAIN inputs :
        inputs[i][var] # Absent /\ \A k \in 1..(i - 1) : inputs[k][var] = Absent
Copies(var) == {i \in 1..Len(result.copies) : result.copies[i].var = var}

\* C30: after a successful merge every resolved name has been copied exactly
\* once, from the first branch in inputs order that stores it, and the join
\* step's datastore holds for it the fingerprint of that branch, which is the
\* fingerprint of every branch storing the name; no other name was copied.
C30_CopiedOnceFromFirstBranch ==
    (Resolving /\ result.kind = "ok") =>
        \A var \in ArtifactNames :
            IF WasResolved(var)
            THEN /\ Cardinality(Copies(var)) = 1
                 /\ \A i \in Copies(var) : result.copies[i].inp = FirstStoring(var)
                 /\ datastore[var] = inputs[FirstStoring(var)][var]
                 /\ \A b \in DOMAIN inputs :
                       inputs[b][var] # Absent => inputs[b][var] = datastore[var]
            ELSE Copies(var) = {} /\ datastore[var] = Absent

\* x is stored by the second and the third branch only, y by the first: the
\* merge succeeded and copied x from the second branch.
C30_Witness ==
    /\ Resolving /\ result.kind = "ok"
    /\ inputs[1]["x"] = Absent /\ inputs[2]["x"] = "sha2" /\ inputs[3]["x"] = "sha2"
    /\ inputs[1]["y"] = "sha1"
    /\ datastore["x"] = "sha2" /\ datastore["y"] = "sha1"
    /\ result.copies = <<[var |-> "y", inp |-> 1], [var |-> "x", inp |-> 2]>>

Written(var) == datastore[var] # Absent

\* C31: the names a successful merge writes are exactly the candidates (stored
\* by a branch, passing include or exclude, not reserved, not set on the join
\* step): with include only names of include are written, with exclude no
\* name of exclude, and nothing outside the candidate set is written.
C31_WritesExactlyCandidates ==
    (Resolving /\ result.kind = "ok") =>
        \A var \in ArtifactNames :
            /\ Written(var) <=> WasCandidate(var)
            /\ (merge_args.include # <<>> /\ Written(var)) => InSeq(var, merge_args.include)
            /\ InSeq(var, merge_args.exclude) => ~Written(var)

\* C31 for the names the code resolves, which with include admit a reserved
\* name: those and no others are written.
C31_WritesExactlyResolved ==
    (Resolving /\ result.kind = "ok") =>
        \A var \in ArtifactNames :
            /\ Written(var) <=> WasResolved(var)
            /\ (merge_args.include # <<>> /\ Written(var)) => InSeq(var, merge_args.include)
            /\ InSeq(var, merge_args.exclude) => ~Written(var)
            /\ WasSet(var) => attrs[var] = LocalValue

\* The same branches handed over in another order
BranchOrders ==
    {p \in [DOMAIN inputs -> DOMAIN inputs] :
        \A i, k \in DOMAIN inputs : p[i] = p[k] => i = k}
Permuted(p) == [i \in DOMAIN inputs |-> inputs[p[i]]]
MergePermuted(args, p) ==
    merge_artifacts(current_step, attrs, datastore, Permuted(p), args.exclude, args.include)
Range(seq) == {seq[i] : i \in 1..Len(seq)}

\* C37: the outcome of merge_artifacts does not depend on the order of the
\* inbound branches: every permutation of them gives the same result kind,
\* the same set of reported names (conflicting or missing) and, on success,
\* the same datastore of the join step.
C37_BranchOrderIrrelevant ==
    BeforeMerge =>
        \A args \in MergeArgs :
            \A o \in {MergeOn(args)} :
                \A q \in {MergePermuted(args, p) : p \in BranchOrders} :
                    /\ q.result.kind = o.result.kind
                    /\ Range(q.result.info) = Range(o.result.info)
                    /\ q.datastore = o.datastore
                    /\ q.attrs = o.attrs

\* Two names conflict, each between another pair of branches, and the merge
\* has reported both.
C37_Witness ==
    /\ Merged /\ InJoin /\ result.kind = "unhandled"
    /\ inputs[1]["x"] = "sha1" /\ inputs[2]["x"] = "sha2" /\ inputs[3]["x"] = Absent
    /\ inputs[1]["y"] = Absent /\ inputs[2]["y"] = "sha1" /\ inputs[3]["y"] = "sha2"
    /\ Range(result.info) = {"x", "y"}

Occurrences(seq, v) == Cardinality({i \in 1..Len(seq) : seq[i] = v})

\* C38: the conflict list of a failed merge holds each conflicting name
\* exactly once, however many branches store it and with however many
\* fingerprints.
C38_ConflictsListedOnce ==
    (Resolving /\ result.kind = "unhandled") =>
        \A var \in ArtifactNames :
            Occurrences(result.info, var) = IF WasResolved(var) /\ Cardinality(StoredShas(var)) > 1
                                            THEN 1 ELSE 0

\* C38 as the code behaves: a conflicting name is listed once for every branch
\* whose fingerprint differs from the first branch's.
C38_ConflictsListedPerBranch ==
    (Resolving /\ result.kind = "unhandled") =>
        \A var \in ArtifactNames :
            Occurrences(result.info, var) =
                IF WasResolved(var)
                THEN Cardinality({b \in DOMAIN inputs :
                        /\ inputs[b][var] # Absent
                        /\ inputs[b][var] # inputs[FirstStoring(var)][var]})
                ELSE 0

(***************************************************************************)
(* Properties of the config-mutation pipeline, checked under SpecConfig.   *)
(***************************************************************************)
PreMutates(cls, name) ==
    {i \in 1..Len(flow[cls].log) :
        flow[cls].log[i].ev = "pre_mutate" /\ flow[cls].log[i].what = name}

\* C5: over any sequence of pipeline invocations on one flow class, every
\* flow-level and step-level mutator's pre_mutate is invoked at most once for
\* that class.
C5_MutatorsAtMostOnce ==
    \A cls \in FlowClasses :
        \A m \in Mutators : Cardinality(PreMutates(cls, m.name)) <= 1

\* C5, the latch: once a class is Processed it stays so, and an invocation on
\* a Processed class returns None and leaves every class as it was.
C5_LatchedNoOp ==
    [][\A cls \in FlowClasses :
          flow[cls]._configs_processed =>
              /\ flow'[cls] = flow[cls]
              /\ (result'.op = "process" /\ result'.info = <<cls>>) =>
                    (result'.kind = "None" /\ flow' = flow)]_vars

\* A second invocation on a class whose first invocation ran a mutator and
\* re-derived the graph.
C5_Witness ==
    /\ result = Returned("None", "Sub")
    /\ flow["Sub"]._configs_processed
    /\ flow["Sub"].graphs = 2
    /\ PreMutates("Sub", "f1") # {}

IsPrefix(a, b) == Len(a) <= Len(b) /\ SubSeq(b, 1, Len(a)) = a

\* The pre_mutate calls made on a class, in the order they were made
PreMutateCalls(cls) == SelectSeq(flow[cls].log, LAMBDA e : e.ev = "pre_mutate")

\* The flow-level mutators of a class in list order, then the step-level ones,
\* step after step in declaration order, each step's in its list order
MutatorOrder(cls) ==
    LET OnStep(step) ==
            [k \in 1..Len(config_decorators[step]) |->
                Event("pre_mutate", config_decorators[step][k].name, step)]
    IN  [i \in 1..Len(flow[cls].FLOW_MUTATORS) |->
            Event("pre_mutate", flow[cls].FLOW_MUTATORS[i].name, "flow")]
        \o OnStep("start") \o OnStep("a")

ProcessOn(cls, config_options, process_configs) ==
    _process_config_decorators(flow, config_decorators, declared, cls,
                               config_options, process_configs)
NewEvents(o, cls) == SubSeq(o.flow[cls].log, Len(flow[cls].log) + 1, Len(o.flow[cls].log))
Events(o, cls, ev) == SelectSeq(NewEvents(o, cls), LAMBDA e : e.ev = ev)
NoMutators(cls) ==
    /\ flow[cls].FLOW_MUTATORS = <<>>
    /\ \A step \in DecoratedSteps : config_decorators[step] = <<>>
FastPath(cls, process_configs) ==
    ~flow[cls]._configs_processed /\ (~process_configs \/ NoMutators(cls))
SlowPath(cls, process_configs) ==
    ~flow[cls]._configs_processed /\ process_configs /\ ~NoMutators(cls)
\* The declared parameters the class still sees as Parameter objects
PlainParameters(cls) ==
    SelectSeq(DirOrder, LAMBDA var :
        var \in declared /\ ~IS_CONFIG_PARAMETER(var)
        /\ getattr_cls(flow, cls, var) = IsParameter)
ConfigStateKept(o, cls) ==
    /\ o.flow[cls].cls_attrs = flow[cls].cls_attrs
    /\ o.flow[cls].SET_CONFIG_PARAMETERS = flow[cls].SET_CONFIG_PARAMETERS
    /\ Events(o, cls, "store") = <<>>

\* C21: on the fast path the pipeline initializes every parameter that is no
\* config, once each, and does nothing else: no mutator is invoked, no config
\* attribute is resolved or overwritten, the graph is not derived again, no
\* other class changes, and it returns None.
C21_FastPath ==
    \A cls \in FlowClasses, config_options \in ConfigOptions, process_configs \in BOOLEAN :
        FastPath(cls, process_configs) =>
            LET o == ProcessOn(cls, config_options, process_configs)
            IN  /\ o.result = Returned("None", cls)
                /\ NewEvents(o, cls) =
                      [i \in 1..Len(PlainParameters(cls)) |->
                          Event("init", PlainParameters(cls)[i],
                                IF process_configs THEN "strict" ELSE "ignore_errors")]
                /\ PlainParameters(cls) # <<>>
                /\ ConfigStateKept(o, cls)
                /\ o.flow[cls].graphs = flow[cls].graphs
                /\ \A other \in FlowClasses \ {cls} : o.flow[other] = flow[other]

\* The fast path was taken with process_configs false on a class that has a
\* flow-level mutator and declares a config.
C21_Witness ==
    /\ result = Returned("None", "Base")
    /\ flow["Base"].FLOW_MUTATORS # <<>>
    /\ "cfg" \in declared
    /\ flow["Base"].log = <<Event("init", "alpha", "ignore_errors")>>
    /\ flow["Base"].graphs = 1

\* C22: on the slow path, when two declared config parameters have the same
\* name ignoring case, the pipeline fails with the duplicate-parameter error
\* before any config value is resolved or stored and before any mutator is
\* invoked.
C22_DuplicateConfigFailsFirst ==
    \A cls \in FlowClasses, config_options \in ConfigOptions :
        (SlowPath(cls, TRUE) /\ {"cfg", "CFG"} \subseteq declared) =>
            LET o == ProcessOn(cls, config_options, TRUE)
            IN  /\ o.result.kind = "duplicate_parameter"
                /\ ConfigStateKept(o, cls)
                /\ Events(o, cls, "pre_mutate") = <<>>
                /\ Events(o, cls, "init") = <<>>
                /\ o.flow[cls].graphs = flow[cls].graphs

\* The pipeline has failed on the duplicate on a class with a mutator, and
\* nothing but the check has happened.
C22_Witness ==
    /\ result.op = "process" /\ result.kind = "duplicate_parameter"
    /\ result.info[1] = "Sub"
    /\ flow["Sub"].FLOW_MUTATORS # <<>>
    /\ flow["Sub"].log = <<Event("_check_parameters", "-", "-")>>
    /\ flow["Sub"].cls_attrs = [var \in ParameterVars |-> NotSet]

\* The entries of the mutator lists the slow path walks for a class, in the
\* order it walks them: where the entry is held, "flow" or the step
Entries(cls) ==
    [i \in 1..Len(flow[cls].FLOW_MUTATORS) |->
        [deco |-> flow[cls].FLOW_MUTATORS[i], on |-> "flow"]]
    \o [i \in 1..Len(StepDecorators(config_decorators)) |->
           [deco |-> StepDecorators(config_decorators)[i].deco,
            on |-> StepDecorators(config_decorators)[i].step]]
PreMutateOf(e) == Event("pre_mutate", e.deco.name, e.on)
WrongKind(e) ==
    e.deco.kind # (IF e.on = "flow" THEN "FlowMutator" ELSE "StepMutator")
Misbound(cls, e) ==
    /\ e.on = "flow" /\ e.deco.kind = "FlowMutator"
    /\ ~issubclass(cls, e.deco.flow_cls)
First(cls, Test(_)) ==
    CHOOSE i \in 1..Len(Entries(cls)) :
        Test(Entries(cls)[i]) /\ \A j \in 1..(i - 1) : ~Test(Entries(cls)[j])
\* The pre_mutate calls of the entries before the i-th
CallsBefore(cls, i) == [j \in 1..(i - 1) |-> PreMutateOf(Entries(cls)[j])]
ReachesMutators(cls) == SlowPath(cls, TRUE) /\ ~({"cfg", "CFG"} \subseteq declared)
InternalErrors == {"non_flow_mutator", "non_step_mutator", "wrong_flow"}
NothingAfterAbort(o, cls) ==
    /\ o.result.kind \in InternalErrors \cup {"mutator_error"}
    /\ Events(o, cls, "init") = <<>>
    /\ Events(o, cls, "_init_graph") = <<>>
    /\ o.flow[cls].graphs = flow[cls].graphs

\* C23: when the slow path walks mutator lists that hold an entry of the wrong
\* kind (no FlowMutator in the flow list, no StepMutator in a step's list) the
\* pipeline aborts: that entry's pre_mutate is not invoked, no later mutator
\* runs, no parameter is initialized and the graph is not derived again.  The
\* error is the internal error about that entry unless an earlier entry already
\* aborted the walk.
C23_WrongKindAborts ==
    \A cls \in FlowClasses, config_options \in ConfigOptions :
        (ReachesMutators(cls) /\ \E i \in 1..Len(Entries(cls)) : WrongKind(Entries(cls)[i])) =>
            LET o == ProcessOn(cls, config_options, TRUE)
                w == First(cls, WrongKind)
            IN  /\ NothingAfterAbort(o, cls)
                /\ IsPrefix(Events(o, cls, "pre_mutate"), CallsBefore(cls, w))
                /\ (\A j \in 1..(w - 1) :
                       ~Misbound(cls, Entries(cls)[j]) /\ ~Entries(cls)[j].deco.raises) =>
                       /\ Events(o, cls, "pre_mutate") = CallsBefore(cls, w)
                       /\ o.result.kind = IF Entries(cls)[w].on = "flow"
                                          THEN "non_flow_mutator" ELSE "non_step_mutator"

\* The flow-level mutator f1 ran, then the walk aborted on a FlowMutator held
\* by a step.
C23_Witness ==
    /\ result = Returned("non_step_mutator", "Base")
    /\ flow["Base"].FLOW_MUTATORS = <<FlowMutator("f1", "Base", FALSE)>>
    /\ PreMutateCalls("Base") = <<Event("pre_mutate", "f1", "flow")>>
    /\ flow["Base"].graphs = 1

MutatorNamed(name) == CHOOSE m \in Mutators : m.name = name

\* C24: a flow-level mutator's pre_mutate has been invoked for a class only if
\* the class it is bound to is that class or a superclass of it; when the walk
\* comes to a FlowMutator bound to another class the pipeline aborts with the
\* wrong-flow internal error and that mutator's pre_mutate is not invoked.
C24_BoundToClassOrSuperclass ==
    /\ \A cls \in FlowClasses :
          \A i \in 1..Len(flow[cls].log) :
              (flow[cls].log[i].ev = "pre_mutate" /\ flow[cls].log[i].on = "flow") =>
                  issubclass(cls, MutatorNamed(flow[cls].log[i].what).flow_cls)
    /\ \A cls \in FlowClasses, config_options \in ConfigOptions :
          (ReachesMutators(cls) /\ \E i \in 1..Len(Entries(cls)) : Misbound(cls, Entries(cls)[i])) =>
              LET o == ProcessOn(cls, config_options, TRUE)
                  m == First(cls, LAMBDA e : Misbound(cls, e))
              IN  /\ NothingAfterAbort(o, cls)
                  /\ IsPrefix(Events(o, cls, "pre_mutate"), CallsBefore(cls, m))
                  /\ (\A j \in 1..(m - 1) :
                         ~WrongKind(Entries(cls)[j]) /\ ~Entries(cls)[j].deco.raises) =>
                         /\ Events(o, cls, "pre_mutate") = CallsBefore(cls, m)
                         /\ o.result.kind = "wrong_flow"

\* Base holds f1, bound to Base, and then f2, bound to its subclass Sub: f1
\* ran and the pipeline aborted on f2.
C24_Witness ==
    /\ result = Returned("wrong_flow", "Base")
    /\ flow["Base"].FLOW_MUTATORS =
          <<FlowMutator("f1", "Base", FALSE), FlowMutator("f2", "Sub", FALSE)>>
    /\ PreMutateCalls("Base") = <<Event("pre_mutate", "f1", "flow")>>

\* The config parameters the class still sees as Parameter objects
ConfigParameters(cls) ==
    SelectSeq(DirOrder, LAMBDA var :
        var \in declared /\ IS_CONFIG_PARAMETER(var)
        /\ getattr_cls(flow, cls, var) = IsParameter)
\* Everything a slow-path run does when nothing stops it, in order
WholeRun(cls, config_options) ==
    <<Event("_check_parameters", "-", "-")>>
    \o [i \in 1..Len(ConfigParameters(cls)) |->
           Event("store", ConfigParameters(cls)[i],
                 IF Lower(ConfigParameters(cls)[i]) \in config_options
                 THEN "value" ELSE "None")]
    \o CallsBefore(cls, Len(Entries(cls)) + 1)
    \o [i \in 1..Len(PlainParameters(cls)) |->
           Event("init", PlainParameters(cls)[i], "strict")]
    \o <<Event("replace_flow_context", "-", "-"), Event("_init_graph", "-", "-")>>

\* C32: what a slow-path run does is a prefix of: duplicate-name validation,
\* storing of every config value, the flow-level mutators, the step-level
\* mutators, initialization of the other parameters, graph derivation.  It
\* returns the class exactly when it did all of it, the graph is then derived
\* once more, as the last thing, and otherwise not at all.
C32_SlowPathOrder ==
    \A cls \in FlowClasses, config_options \in ConfigOptions :
        SlowPath(cls, TRUE) =>
            \A o \in {ProcessOn(cls, config_options, TRUE)} :
                /\ IsPrefix(NewEvents(o, cls), WholeRun(cls, config_options))
                /\ o.result.kind = "cls" <=> NewEvents(o, cls) = WholeRun(cls, config_options)
                /\ o.flow[cls].graphs =
                      flow[cls].graphs + (IF o.result.kind = "cls" THEN 1 ELSE 0)
                /\ Len(Events(o, cls, "_init_graph")) = (IF o.result.kind = "cls" THEN 1 ELSE 0)

\* A whole run on Base: validation, cfg stored, f1, s1 on start, alpha
\* initialized, graph derived.
C32_Witness ==
    /\ result = Returned("cls", "Base")
    /\ flow["Base"].graphs = 2
    /\ flow["Base"].log =
          <<Event("_check_parameters", "-", "-"), Event("store", "cfg", "value"),
            Event("pre_mutate", "f1", "flow"), Event("pre_mutate", "s1", "start"),
            Event("init", "alpha", "strict"),
            Event("replace_flow_context", "-", "-"), Event("_init_graph", "-", "-")>>

\* C34: the first invocation on a class sets the latch whatever it then does:
\* with process_configs false, and when it aborts on a duplicate config name,
\* a wrong-kind or misbound mutator or a raising mutator.  Every invocation on
\* a Processed class, process_configs true included, returns None and changes
\* nothing, so it runs no mutator.
C34_LatchSetAtEntry ==
    \A cls \in FlowClasses, config_options \in ConfigOptions, process_configs \in BOOLEAN :
        \A o \in {ProcessOn(cls, config_options, process_configs)} :
            /\ o.flow[cls]._configs_processed
            /\ flow[cls]._configs_processed =>
                  /\ o.result = Returned("None", cls)
                  /\ o.flow = flow

\* The first invocation on Base aborted in the raising mutator f3 before the
\* graph was derived; a later invocation has returned None.
C34_Witness ==
    /\ result = Returned("None", "Base")
    /\ flow["Base"]._configs_processed
    /\ flow["Base"].graphs = 1
    /\ PreMutateCalls("Base") = <<Event("pre_mutate", "f3", "flow")>>
    /\ \A i \in 1..Len(flow["Base"].log) : flow["Base"].log[i].ev # "init"

\* C39: the latch belongs to the flow class.  Every class, a subclass of
\* another flow class included, is not Processed until the pipeline runs on
\* it, and an invocation on one class leaves every other class, its
\* superclasses and subclasses included, as it was.
C39_LatchPerClass ==
    /\ result = NoResult => \A cls \in FlowClasses : ~flow[cls]._configs_processed
    /\ \A cls \in FlowClasses, config_options \in ConfigOptions, process_configs \in BOOLEAN :
          \A o \in {ProcessOn(cls, config_options, process_configs)} :
              \A other \in FlowClasses \ {cls} :
                  /\ o.flow[other]._configs_processed = flow[other]._configs_processed
                  /\ o.flow[other] = flow[other]

\* Base and its grandchild have been processed, the class between them has not.
C39_Witness ==
    /\ flow["Base"]._configs_processed
    /\ ~flow["Sub"]._configs_processed
    /\ flow["GrandSub"]._configs_processed
    /\ flow["Base"].graphs = 2

(***************************************************************************)
(* Properties of index, input and foreach_stack, checked under SpecForeach.*)
(* Those about one call are stated of what the call would return in the    *)
(* state at hand, so they cover every stack, datastore and assignment the  *)
(* step body can reach.                                                    *)
(***************************************************************************)
Depth == Len(_foreach_stack)
Depths == 0..(Depth - 1)
ForeachOn == foreach_stack(attrs, datastore, _foreach_stack, _cached_input, 0, <<>>)
InputOn(at, cache) == input(at, datastore, _foreach_stack, cache)
Available(i) == HasAttr(attrs, datastore, _foreach_stack[i + 1].var)
ItemAt(i) ==
    subscript(ValueOf(GetAttr(attrs, datastore, _foreach_stack[i + 1].var)),
              _foreach_stack[i + 1].index)
\* Depth i has a value: one cached, none because the variable is
\* unavailable, or the item of the variable at the frame's index.
CanResolve(i) == IsCached(_cached_input, i) \/ ~Available(i) \/ ItemAt(i).kind = "ok"
ResolvedValue(i) ==
    IF IsCached(_cached_input, i) THEN _cached_input[i]
    ELSE IF ~Available(i) THEN PyNone
    ELSE ItemAt(i).value
RaisedKinds == {"IndexError", "TypeError", "StopIteration"}

\* What C13 says foreach_stack() returns, given the outcome fs of the call
StackShape(fs) ==
    /\ Len(fs.value) = Depth
    /\ \A i \in Depths :
          fs.value[i + 1] = StackTuple(_foreach_stack[i + 1], ResolvedValue(i))
    /\ Depth >= 1 =>
          /\ PyInt(fs.value[Depth].index) = index(_foreach_stack)
          /\ InputOn(fs.attrs, fs.cache).kind = "ok"
          /\ InputOn(fs.attrs, fs.cache).value = fs.value[Depth].value
          /\ InputOn(attrs, _cached_input).kind = "ok"
          /\ InputOn(attrs, _cached_input).value = fs.value[Depth].value
    /\ Depth = 0 =>
          /\ fs.value = <<>>
          /\ index(_foreach_stack) = PyNone
          /\ InputOn(attrs, _cached_input).kind = "ok"
          /\ InputOn(attrs, _cached_input).value = PyNone

\* C13 as stated: at every depth n foreach_stack() returns n tuples
\* (index, num_splits, value), outermost first, the last one agreeing with
\* index and input; at depth 0 it is empty and index and input are None.
C13_AlwaysReturns ==
    ForeachOn.kind = "ok" /\ StackShape(ForeachOn)

\* C13: foreach_stack() returns those n tuples exactly when every depth has a
\* value; when an uncached depth's variable is available but has no item at
\* the frame's index it raises IndexError, TypeError or StopIteration instead.
C13_ReturnsWhenResolvable ==
    /\ (\A i \in Depths : CanResolve(i)) =>
          ForeachOn.kind = "ok" /\ StackShape(ForeachOn)
    /\ (\E i \in Depths : ~CanResolve(i)) => ForeachOn.kind \in RaisedKinds
    /\ (result.op = "foreach_stack" /\ result.kind = "ok") =>
          /\ Len(result.info) = Depth
          /\ \A i \in Depths :
                result.info[i + 1] = StackTuple(_foreach_stack[i + 1], _cached_input[i])

\* foreach_stack() has returned two tuples of different indices and items
C13_Witness ==
    /\ Depth = 2
    /\ result.op = "foreach_stack" /\ result.kind = "ok"
    /\ result.info[1].index # result.info[2].index
    /\ result.info[1].value.tag = "item" /\ result.info[2].value.tag = "item"
    /\ result.info[1].value # result.info[2].value


FindInputOn(i) == _find_input(attrs, datastore, _foreach_stack, _cached_input, PyInt(i))
Unavailable(i) == ~IsCached(_cached_input, i) /\ ~Available(i)

\* C18: resolving a depth whose foreach variable is not available returns
\* None without raising, and that depth never makes foreach_stack() raise:
\* its tuple carries the frame's index and num_splits and the value None.
C18_UnavailableIsNone ==
    \A i \in Depths :
        Unavailable(i) =>
            /\ FindInputOn(i).kind = "ok"
            /\ FindInputOn(i).value = PyNone
            /\ (i = Depth - 1) =>
                  /\ InputOn(attrs, _cached_input).kind = "ok"
                  /\ InputOn(attrs, _cached_input).value = PyNone
            /\ ForeachOn.kind # "AttributeError"
            /\ (\A j \in Depths \ {i} : CanResolve(j)) =>
                  /\ ForeachOn.kind = "ok"
                  /\ ForeachOn.value[i + 1] =
                        [index |-> _foreach_stack[i + 1].index,
                         num_splits |-> _foreach_stack[i + 1].num_splits,
                         value |-> PyNone]

\* foreach_stack() has returned an item for the outer depth and None for the
\* inner one, whose variable y the task does not have
C18_Witness ==
    /\ Depth = 2
    /\ _foreach_stack[2].var = "y" /\ ~HasAttr(attrs, datastore, "y")
    /\ result.op = "foreach_stack" /\ result.kind = "ok"
    /\ result.info[1].value.tag = "item"
    /\ result.info[2] = StackTuple(_foreach_stack[2], PyNone)

Resolves(op, i) ==
    /\ result'.kind = "ok"
    /\ \/ result'.op = "_find_input" /\ op = "_find_input" /\ result'.info[1] = PyInt(i)
       \/ result'.op = "input" /\ op = "input" /\ i = Depth - 1
       \/ result'.op = "foreach_stack" /\ op = "foreach_stack"
Returned_value(op, i) ==
    IF op = "_find_input" THEN result'.info[2]
    ELSE IF op = "input" THEN result'.info[1]
    ELSE result'.info[i + 1].value

\* C19: once depth i has a cached value, None included, no step changes it,
\* whatever is assigned to the foreach variable, and every resolution of
\* depth i through input, foreach_stack or _find_input returns it; input and
\* _find_input leave the cache of every other depth as it was.
C19_WriteOnce ==
    [][\A i \in Depths :
          /\ IsCached(_cached_input, i) =>
                /\ _cached_input'[i] = _cached_input[i]
                /\ \A op \in {"_find_input", "input", "foreach_stack"} :
                      Resolves(op, i) => Returned_value(op, i) = _cached_input[i]
          /\ \A op \in {"_find_input", "input"} :
                Resolves(op, i) =>
                    \A j \in Depths \ {i} : _cached_input'[j] = _cached_input[j]
      ]_vars

\* Both depths iterate x. Depth 0 was resolved while x was the stored list,
\* x was then assigned another list, and foreach_stack() has returned the
\* old item for depth 0 and an item of the new list for depth 1.
C19_Witness ==
    /\ Depth = 2
    /\ _foreach_stack[1].var = "x" /\ _foreach_stack[2].var = "x"
    /\ InDict(attrs, "x") /\ attrs["x"] = ListFrom("step", MaxSplits)
    /\ result.op = "foreach_stack" /\ result.kind = "ok"
    /\ result.info[1].value.tag = "item" /\ result.info[1].value.src = "sha1"
    /\ result.info[2].value.tag = "item" /\ result.info[2].value.src = "step"
    /\ _cached_input[0] = result.info[1].value

====
